---- MODULE Spec2Model ----
(***************************************************************************)
(* A model of the lucy chart service: the Kerykeion chart generator        *)
(* (kerykeion_chart_generator.py), its HTTP wrapper (chart_service.py) and  *)
(* the dynamic natal generator (dynamic-natal-generator.py).                *)
(*                                                                         *)
(* Python values are tagged records: None, a string (a sequence of          *)
(* one-character strings), or a number.  The external library (Kerykeion)   *)
(* is a black box: where its behaviour decides an outcome (a constructor    *)
(* raising, the renderer writing no file) the model chooses among the       *)
(* outcomes nondeterministically.                                           *)
(***************************************************************************)
EXTENDS Integers, Sequences, FiniteSets, TLC

(***************************************************************************)
(* Python values                                                            *)
(***************************************************************************)
None == [t |-> "none", s |-> <<>>, n |-> 0]
Str(chars) == [t |-> "str", s |-> chars, n |-> 0]
Num(k) == [t |-> "num", s |-> <<>>, n |-> k]

IsStr(v) == v.t = "str"

\* Python truthiness of a value: `if x`, `x or default`
Truthy(v) ==
    CASE v.t = "none" -> FALSE
      [] v.t = "str" -> Len(v.s) > 0
      [] OTHER -> v.n /= 0

Digits == {"0", "1", "2", "3", "4", "5", "6", "7", "8", "9"}

DigitVal(c) ==
    CASE c = "0" -> 0 [] c = "1" -> 1 [] c = "2" -> 2 [] c = "3" -> 3
      [] c = "4" -> 4 [] c = "5" -> 5 [] c = "6" -> 6 [] c = "7" -> 7
      [] c = "8" -> 8 [] OTHER -> 9

AllDigits(s) == Len(s) > 0 /\ \A i \in 1..Len(s) : s[i] \in Digits

RECURSIVE DecVal(_)
DecVal(s) ==
    IF Len(s) = 0 THEN 0
    ELSE 10 * DecVal(SubSeq(s, 1, Len(s) - 1)) + DigitVal(s[Len(s)])

RECURSIVE LStrip(_)
LStrip(s) == IF Len(s) > 0 /\ s[1] = " " THEN LStrip(Tail(s)) ELSE s

RECURSIVE RStrip(_)
RStrip(s) ==
    IF Len(s) > 0 /\ s[Len(s)] = " " THEN RStrip(SubSeq(s, 1, Len(s) - 1)) ELSE s

\* int(str): surrounding blanks stripped, an optional sign, then decimal digits
PyInt(s) ==
    LET b == RStrip(LStrip(s))
        signed == Len(b) > 0 /\ b[1] \in {"+", "-"}
        d == IF signed THEN Tail(b) ELSE b
    IN  IF AllDigits(d)
        THEN [ok |-> TRUE, v |-> IF signed /\ b[1] = "-" THEN 0 - DecVal(d) ELSE DecVal(d)]
        ELSE [ok |-> FALSE, v |-> 0]

\* str.split(sep) for a one-character separator
RECURSIVE Split(_, _)
Split(s, sep) ==
    IF \A i \in 1..Len(s) : s[i] /= sep THEN <<s>>
    ELSE LET k == CHOOSE i \in 1..Len(s) : s[i] = sep /\ \A j \in 1..(i - 1) : s[j] /= sep
         IN  <<SubSeq(s, 1, k - 1)>> \o Split(SubSeq(s, k + 1, Len(s)), sep)

Contains(s, c) == \E i \in 1..Len(s) : s[i] = c

\* str.replace('Z', '+00:00')
RECURSIVE ReplaceZ(_)
ReplaceZ(s) ==
    IF Len(s) = 0 THEN <<>>
    ELSE (IF s[1] = "Z" THEN <<"+", "0", "0", ":", "0", "0">> ELSE <<s[1]>>)
         \o ReplaceZ(Tail(s))

StartsWith(s, p) == Len(s) >= Len(p) /\ SubSeq(s, 1, Len(p)) = p

(***************************************************************************)
(* Calendar dates                                                           *)
(***************************************************************************)
IsLeap(y) == (y % 4 = 0 /\ y % 100 /= 0) \/ y % 400 = 0

DaysInMonth(y, m) ==
    CASE m \in {4, 6, 9, 11} -> 30
      [] m = 2 -> (IF IsLeap(y) THEN 29 ELSE 28)
      [] OTHER -> 31

ValidDate(y, m, d) == y >= 1 /\ m \in 1..12 /\ d >= 1 /\ d <= DaysInMonth(y, m)

BadDate == [ok |-> FALSE, year |-> 0, month |-> 0, day |-> 0, hour |-> 0, minute |-> 0]
GoodDate(y, m, d, hh, mm) ==
    [ok |-> TRUE, year |-> y, month |-> m, day |-> d, hour |-> hh, minute |-> mm]

\* datetime.strptime(s, '%Y-%m-%d'): four-digit year, month and day of one or
\* two digits, the whole string consumed, and a day the month has
Strptime(s) ==
    LET p == Split(s, "-")
    IN  IF Len(p) = 3
           /\ Len(p[1]) = 4 /\ AllDigits(p[1])
           /\ Len(p[2]) \in {1, 2} /\ AllDigits(p[2])
           /\ Len(p[3]) \in {1, 2} /\ AllDigits(p[3])
           /\ ValidDate(DecVal(p[1]), DecVal(p[2]), DecVal(p[3]))
        THEN GoodDate(DecVal(p[1]), DecVal(p[2]), DecVal(p[3]), 0, 0)
        ELSE BadDate

TwoDigits(s) == Len(s) = 2 /\ AllDigits(s)

\* the time part of an ISO timestamp: HH, HH:MM or HH:MM:SS
IsoTime(s) ==
    LET p == Split(s, ":")
    IN  IF Len(p) \in 1..3
           /\ (\A i \in 1..Len(p) : TwoDigits(p[i]))
           /\ DecVal(p[1]) < 24
           /\ (\A i \in 2..Len(p) : DecVal(p[i]) < 60)
        THEN [ok |-> TRUE, hour |-> DecVal(p[1]),
              minute |-> IF Len(p) >= 2 THEN DecVal(p[2]) ELSE 0]
        ELSE [ok |-> FALSE, hour |-> 0, minute |-> 0]

\* a zone offset HH:MM
IsoOffset(s) ==
    LET p == Split(s, ":")
    IN  Len(p) = 2 /\ TwoDigits(p[1]) /\ TwoDigits(p[2])
        /\ DecVal(p[1]) < 24 /\ DecVal(p[2]) < 60

\* datetime.fromisoformat(s): YYYY-MM-DD, then optionally one separator
\* character, a time and a zone offset
FromIsoFormat(s) ==
    IF Len(s) < 10 THEN BadDate
    ELSE
      LET ds == SubSeq(s, 1, 10)
          dateOk == AllDigits(SubSeq(ds, 1, 4)) /\ ds[5] = "-"
                    /\ AllDigits(SubSeq(ds, 6, 7)) /\ ds[8] = "-"
                    /\ AllDigits(SubSeq(ds, 9, 10))
          y == DecVal(SubSeq(ds, 1, 4))
          m == DecVal(SubSeq(ds, 6, 7))
          d == DecVal(SubSeq(ds, 9, 10))
          rest == SubSeq(s, 12, Len(s))
          signs == {i \in 1..Len(rest) : rest[i] \in {"+", "-"}}
          cut == IF signs = {} THEN Len(rest) + 1
                 ELSE CHOOSE i \in signs : \A j \in signs : i <= j
          tm == IsoTime(SubSeq(rest, 1, cut - 1))
          offOk == cut > Len(rest) \/ IsoOffset(SubSeq(rest, cut + 1, Len(rest)))
      IN  IF ~(dateOk /\ ValidDate(y, m, d)) THEN BadDate
          ELSE IF Len(s) = 10 THEN GoodDate(y, m, d, 0, 0)
          ELSE IF Len(s) = 11 THEN BadDate
          ELSE IF tm.ok /\ offOk THEN GoodDate(y, m, d, tm.hour, tm.minute)
          ELSE BadDate

(***************************************************************************)
(* Exceptions: the type and the length of str(e).  The text itself is not   *)
(* modelled; what a caller can receive of it is a number of characters.     *)
(***************************************************************************)
NoExc == [type |-> "none", len |-> 0]
Exc(ty, n) == [type |-> ty, len |-> n]

\* lengths of the messages the generator's own raise statements format
InvalidDateMsgLen == 27
NoChartDataMsgLen == 22
NoSvgMsgLen == 41
EmptySvgMsgLen == 38

\* len(repr(v)) as it appears in an f-string
ReprLen(v) ==
    CASE v.t = "str" -> Len(v.s)
      [] v.t = "num" -> 8
      [] OTHER -> 4

Absent == [t |-> "absent", s |-> <<>>, n |-> 0]

\* dict.get(key, default): the default only when the key is absent
Get(v, default) == IF v.t = "absent" THEN default ELSE v

(***************************************************************************)
(* parse_birth_data                                                         *)
(***************************************************************************)
\* the date half of parse_birth_data
ParseDate(raw) ==
    LET v == Get(raw, None)
    IN  IF IsStr(v)
        THEN IF Contains(v.s, "T")
             THEN LET r == FromIsoFormat(ReplaceZ(v.s))
                  IN  IF r.ok THEN [exc |-> NoExc, date |-> r]
                      ELSE [exc |-> Exc("ValueError", 28 + Len(v.s)),
                            date |-> BadDate]
             ELSE LET r == Strptime(v.s)
                  IN  IF r.ok THEN [exc |-> NoExc, date |-> r]
                      ELSE [exc |-> Exc("ValueError", 45 + Len(v.s)),
                            date |-> BadDate]
        ELSE [exc |-> Exc("ValueError", InvalidDateMsgLen + ReprLen(v)), date |-> BadDate]

NoonTime == [exc |-> NoExc, hour |-> 12, minute |-> 0]
TimeError(n) == [exc |-> Exc("ValueError", n), hour |-> 0, minute |-> 0]

\* hour, minute = map(int, parts): the unpacking of exactly two integers
UnpackTwoInts(parts) ==
    IF Len(parts) = 0 THEN TimeError(47)
    ELSE IF ~PyInt(parts[1]).ok THEN TimeError(42 + Len(parts[1]))
    ELSE IF Len(parts) = 1 THEN TimeError(47)
    ELSE IF ~PyInt(parts[2]).ok THEN TimeError(42 + Len(parts[2]))
    ELSE IF Len(parts) > 2
         THEN (IF ~PyInt(parts[3]).ok THEN TimeError(42 + Len(parts[3]))
               ELSE TimeError(38))
    ELSE [exc |-> NoExc, hour |-> PyInt(parts[1]).v, minute |-> PyInt(parts[2]).v]

\* the time half of parse_birth_data
ParseTime(raw) ==
    LET v == Get(raw, Str(<<"1", "2", ":", "0", "0", ":", "0", "0">>))
    IN  IF IsStr(v)
        THEN IF Len(v.s) = 5 THEN UnpackTwoInts(Split(v.s, ":"))
             ELSE IF Len(v.s) = 8
                  THEN LET p == Split(v.s, ":")
                       IN  UnpackTwoInts(SubSeq(p, 1, IF Len(p) < 2 THEN Len(p) ELSE 2))
             ELSE NoonTime
        ELSE NoonTime

NoInfo == [year |-> 0, month |-> 0, day |-> 0, hour |-> 0, minute |-> 0]

\* parse_birth_data: the date first, then the time; the first error is raised
ParseBirthData(rec) ==
    LET d == ParseDate(rec.birth_date)
        tm == ParseTime(rec.birth_time)
    IN  IF d.exc /= NoExc THEN [exc |-> d.exc, info |-> NoInfo]
        ELSE IF tm.exc /= NoExc THEN [exc |-> tm.exc, info |-> NoInfo]
        ELSE [exc |-> NoExc,
              info |-> [year |-> d.date.year, month |-> d.date.month, day |-> d.date.day,
                        hour |-> tm.hour, minute |-> tm.minute]]

(***************************************************************************)
(* Country codes                                                            *)
(***************************************************************************)
\* the country_mapping table of map_country_to_code: <<name, code>>
country_mapping ==
    {<<<<"U", "n", "i", "t", "e", "d", " ", "S", "t", "a", "t", "e", "s">>, <<"U", "S">>>>,
     <<<<"U", "S", "A">>, <<"U", "S">>>>,
     <<<<"U", "n", "i", "t", "e", "d", " ", "K", "i", "n", "g", "d", "o", "m">>, <<"G", "B">>>>,
     <<<<"U", "K">>, <<"G", "B">>>>,
     <<<<"C", "a", "n", "a", "d", "a">>, <<"C", "A">>>>,
     <<<<"A", "u", "s", "t", "r", "a", "l", "i", "a">>, <<"A", "U">>>>,
     <<<<"G", "e", "r", "m", "a", "n", "y">>, <<"D", "E">>>>,
     <<<<"F", "r", "a", "n", "c", "e">>, <<"F", "R">>>>,
     <<<<"I", "t", "a", "l", "y">>, <<"I", "T">>>>,
     <<<<"S", "p", "a", "i", "n">>, <<"E", "S">>>>,
     <<<<"N", "e", "t", "h", "e", "r", "l", "a", "n", "d", "s">>, <<"N", "L">>>>,
     <<<<"B", "e", "l", "g", "i", "u", "m">>, <<"B", "E">>>>,
     <<<<"S", "w", "i", "t", "z", "e", "r", "l", "a", "n", "d">>, <<"C", "H">>>>,
     <<<<"A", "u", "s", "t", "r", "i", "a">>, <<"A", "T">>>>,
     <<<<"J", "a", "p", "a", "n">>, <<"J", "P">>>>,
     <<<<"C", "h", "i", "n", "a">>, <<"C", "N">>>>,
     <<<<"I", "n", "d", "i", "a">>, <<"I", "N">>>>,
     <<<<"B", "r", "a", "z", "i", "l">>, <<"B", "R">>>>,
     <<<<"M", "e", "x", "i", "c", "o">>, <<"M", "X">>>>,
     <<<<"A", "r", "g", "e", "n", "t", "i", "n", "a">>, <<"A", "R">>>>,
     <<<<"R", "u", "s", "s", "i", "a">>, <<"R", "U">>>>,
     <<<<"N", "o", "r", "w", "a", "y">>, <<"N", "O">>>>,
     <<<<"S", "w", "e", "d", "e", "n">>, <<"S", "E">>>>,
     <<<<"D", "e", "n", "m", "a", "r", "k">>, <<"D", "K">>>>,
     <<<<"F", "i", "n", "l", "a", "n", "d">>, <<"F", "I">>>>,
     <<<<"P", "o", "l", "a", "n", "d">>, <<"P", "L">>>>,
     <<<<"C", "z", "e", "c", "h", " ", "R", "e", "p", "u", "b", "l", "i", "c">>, <<"C", "Z">>>>,
     <<<<"H", "u", "n", "g", "a", "r", "y">>, <<"H", "U">>>>,
     <<<<"I", "r", "e", "l", "a", "n", "d">>, <<"I", "E">>>>,
     <<<<"P", "o", "r", "t", "u", "g", "a", "l">>, <<"P", "T">>>>,
     <<<<"G", "r", "e", "e", "c", "e">>, <<"G", "R">>>>,
     <<<<"T", "u", "r", "k", "e", "y">>, <<"T", "R">>>>,
     <<<<"I", "s", "r", "a", "e", "l">>, <<"I", "L">>>>,
     <<<<"E", "g", "y", "p", "t">>, <<"E", "G">>>>,
     <<<<"S", "o", "u", "t", "h", " ", "A", "f", "r", "i", "c", "a">>, <<"Z", "A">>>>,
     <<<<"N", "e", "w", " ", "Z", "e", "a", "l", "a", "n", "d">>, <<"N", "Z">>>>,
     <<<<"S", "o", "u", "t", "h", " ", "K", "o", "r", "e", "a">>, <<"K", "R">>>>,
     <<<<"T", "h", "a", "i", "l", "a", "n", "d">>, <<"T", "H">>>>,
     <<<<"S", "i", "n", "g", "a", "p", "o", "r", "e">>, <<"S", "G">>>>,
     <<<<"P", "h", "i", "l", "i", "p", "p", "i", "n", "e", "s">>, <<"P", "H">>>>,
     <<<<"M", "a", "l", "a", "y", "s", "i", "a">>, <<"M", "Y">>>>,
     <<<<"I", "n", "d", "o", "n", "e", "s", "i", "a">>, <<"I", "D">>>>,
     <<<<"V", "i", "e", "t", "n", "a", "m">>, <<"V", "N">>>>,
     <<<<"C", "h", "i", "l", "e">>, <<"C", "L">>>>,
     <<<<"C", "o", "l", "o", "m", "b", "i", "a">>, <<"C", "O">>>>,
     <<<<"P", "e", "r", "u">>, <<"P", "E">>>>,
     <<<<"V", "e", "n", "e", "z", "u", "e", "l", "a">>, <<"V", "E">>>>,
     <<<<"U", "k", "r", "a", "i", "n", "e">>, <<"U", "A">>>>,
     <<<<"R", "o", "m", "a", "n", "i", "a">>, <<"R", "O">>>>,
     <<<<"B", "u", "l", "g", "a", "r", "i", "a">>, <<"B", "G">>>>,
     <<<<"C", "r", "o", "a", "t", "i", "a">>, <<"H", "R">>>>,
     <<<<"S", "e", "r", "b", "i", "a">>, <<"R", "S">>>>,
     <<<<"S", "l", "o", "v", "e", "n", "i", "a">>, <<"S", "I">>>>,
     <<<<"S", "l", "o", "v", "a", "k", "i", "a">>, <<"S", "K">>>>,
     <<<<"L", "i", "t", "h", "u", "a", "n", "i", "a">>, <<"L", "T">>>>,
     <<<<"L", "a", "t", "v", "i", "a">>, <<"L", "V">>>>,
     <<<<"E", "s", "t", "o", "n", "i", "a">>, <<"E", "E">>>>,
     <<<<"I", "c", "e", "l", "a", "n", "d">>, <<"I", "S">>>>,
     <<<<"L", "u", "x", "e", "m", "b", "o", "u", "r", "g">>, <<"L", "U">>>>,
     <<<<"M", "a", "l", "t", "a">>, <<"M", "T">>>>,
     <<<<"C", "y", "p", "r", "u", "s">>, <<"C", "Y">>>>}

\* dict.get(key, default) on a table of <<name, code>> pairs
Lookup(tbl, s, default) ==
    IF \E e \in tbl : e[1] = s THEN (CHOOSE e \in tbl : e[1] = s)[2] ELSE default

\* the shared shape of map_country_to_code and _map_country_to_code: a falsy
\* value gives 'US', a value of length one or two is returned as it is, a
\* longer one is looked up; len() of a number raises
Resolve(tbl, country) ==
    IF ~Truthy(country) THEN [exc |-> NoExc, code |-> <<"U", "S">>]
    ELSE IF ~IsStr(country) THEN [exc |-> Exc("TypeError", 34), code |-> <<>>]
    ELSE IF Len(country.s) <= 2 THEN [exc |-> NoExc, code |-> country.s]
    ELSE [exc |-> NoExc, code |-> Lookup(tbl, country.s, <<"U", "S">>)]

\* map_country_to_code
map_country_to_code(country) == Resolve(country_mapping, country)

\* parse_birth_data's nation: chart_data.get('birth_country') or 'GB', resolved
ParseNation(raw) ==
    LET v == Get(raw, None)
    IN  map_country_to_code(IF Truthy(v) THEN v ELSE Str(<<"G", "B">>))

\* the country_mapping table of _create_astrological_subject
DynCountryMapping ==
    {<<<<"U", "n", "i", "t", "e", "d", " ", "S", "t", "a", "t", "e", "s">>, <<"U", "S">>>>,
     <<<<"U", "n", "i", "t", "e", "d", " ", "K", "i", "n", "g", "d", "o", "m">>, <<"G", "B">>>>,
     <<<<"C", "a", "n", "a", "d", "a">>, <<"C", "A">>>>,
     <<<<"A", "u", "s", "t", "r", "a", "l", "i", "a">>, <<"A", "U">>>>,
     <<<<"G", "e", "r", "m", "a", "n", "y">>, <<"D", "E">>>>,
     <<<<"F", "r", "a", "n", "c", "e">>, <<"F", "R">>>>,
     <<<<"I", "t", "a", "l", "y">>, <<"I", "T">>>>,
     <<<<"S", "p", "a", "i", "n">>, <<"E", "S">>>>,
     <<<<"N", "e", "t", "h", "e", "r", "l", "a", "n", "d", "s">>, <<"N", "L">>>>,
     <<<<"B", "e", "l", "g", "i", "u", "m">>, <<"B", "E">>>>,
     <<<<"S", "w", "i", "t", "z", "e", "r", "l", "a", "n", "d">>, <<"C", "H">>>>,
     <<<<"A", "u", "s", "t", "r", "i", "a">>, <<"A", "T">>>>,
     <<<<"J", "a", "p", "a", "n">>, <<"J", "P">>>>,
     <<<<"C", "h", "i", "n", "a">>, <<"C", "N">>>>,
     <<<<"I", "n", "d", "i", "a">>, <<"I", "N">>>>,
     <<<<"B", "r", "a", "z", "i", "l">>, <<"B", "R">>>>,
     <<<<"M", "e", "x", "i", "c", "o">>, <<"M", "X">>>>,
     <<<<"A", "r", "g", "e", "n", "t", "i", "n", "a">>, <<"A", "R">>>>,
     <<<<"R", "u", "s", "s", "i", "a">>, <<"R", "U">>>>,
     <<<<"N", "o", "r", "w", "a", "y">>, <<"N", "O">>>>,
     <<<<"S", "w", "e", "d", "e", "n">>, <<"S", "E">>>>,
     <<<<"D", "e", "n", "m", "a", "r", "k">>, <<"D", "K">>>>,
     <<<<"F", "i", "n", "l", "a", "n", "d">>, <<"F", "I">>>>}

\* _create_astrological_subject's nation: get('birth_country', 'GB'), looked
\* up when longer than two characters; len(None) raises
DynNation(raw) ==
    LET country == Get(raw, Str(<<"G", "B">>))
    IN  IF ~IsStr(country)
        THEN [exc |-> Exc("TypeError", IF country.t = "none" THEN 39 ELSE 34),
              code |-> <<>>]
        ELSE IF Len(country.s) > 2
        THEN [exc |-> NoExc, code |-> Lookup(DynCountryMapping, country.s, <<"G", "B">>)]
        ELSE [exc |-> NoExc, code |-> country.s]

\* the country_mapping table of _map_country_to_code
DynSynastryMapping ==
    {<<<<"U", "n", "i", "t", "e", "d", " ", "S", "t", "a", "t", "e", "s">>, <<"U", "S">>>>,
     <<<<"U", "n", "i", "t", "e", "d", " ", "K", "i", "n", "g", "d", "o", "m">>, <<"G", "B">>>>,
     <<<<"C", "a", "n", "a", "d", "a">>, <<"C", "A">>>>,
     <<<<"A", "u", "s", "t", "r", "a", "l", "i", "a">>, <<"A", "U">>>>,
     <<<<"G", "e", "r", "m", "a", "n", "y">>, <<"D", "E">>>>,
     <<<<"F", "r", "a", "n", "c", "e">>, <<"F", "R">>>>,
     <<<<"I", "t", "a", "l", "y">>, <<"I", "T">>>>,
     <<<<"S", "p", "a", "i", "n">>, <<"E", "S">>>>,
     <<<<"N", "e", "t", "h", "e", "r", "l", "a", "n", "d", "s">>, <<"N", "L">>>>,
     <<<<"B", "e", "l", "g", "i", "u", "m">>, <<"B", "E">>>>,
     <<<<"S", "w", "i", "t", "z", "e", "r", "l", "a", "n", "d">>, <<"C", "H">>>>,
     <<<<"A", "u", "s", "t", "r", "i", "a">>, <<"A", "T">>>>,
     <<<<"J", "a", "p", "a", "n">>, <<"J", "P">>>>,
     <<<<"C", "h", "i", "n", "a">>, <<"C", "N">>>>,
     <<<<"I", "n", "d", "i", "a">>, <<"I", "N">>>>,
     <<<<"B", "r", "a", "z", "i", "l">>, <<"B", "R">>>>,
     <<<<"M", "e", "x", "i", "c", "o">>, <<"M", "X">>>>,
     <<<<"A", "r", "g", "e", "n", "t", "i", "n", "a">>, <<"A", "R">>>>,
     <<<<"R", "u", "s", "s", "i", "a">>, <<"R", "U">>>>,
     <<<<"N", "o", "r", "w", "a", "y">>, <<"N", "O">>>>,
     <<<<"S", "w", "e", "d", "e", "n">>, <<"S", "E">>>>,
     <<<<"D", "e", "n", "m", "a", "r", "k">>, <<"D", "K">>>>,
     <<<<"F", "i", "n", "l", "a", "n", "d">>, <<"F", "I">>>>,
     <<<<"P", "o", "l", "a", "n", "d">>, <<"P", "L">>>>,
     <<<<"C", "z", "e", "c", "h", " ", "R", "e", "p", "u", "b", "l", "i", "c">>, <<"C", "Z">>>>,
     <<<<"H", "u", "n", "g", "a", "r", "y">>, <<"H", "U">>>>,
     <<<<"I", "r", "e", "l", "a", "n", "d">>, <<"I", "E">>>>,
     <<<<"P", "o", "r", "t", "u", "g", "a", "l">>, <<"P", "T">>>>,
     <<<<"G", "r", "e", "e", "c", "e">>, <<"G", "R">>>>,
     <<<<"T", "u", "r", "k", "e", "y">>, <<"T", "R">>>>,
     <<<<"I", "s", "r", "a", "e", "l">>, <<"I", "L">>>>,
     <<<<"E", "g", "y", "p", "t">>, <<"E", "G">>>>,
     <<<<"S", "o", "u", "t", "h", " ", "A", "f", "r", "i", "c", "a">>, <<"Z", "A">>>>,
     <<<<"N", "e", "w", " ", "Z", "e", "a", "l", "a", "n", "d">>, <<"N", "Z">>>>,
     <<<<"S", "o", "u", "t", "h", " ", "K", "o", "r", "e", "a">>, <<"K", "R">>>>,
     <<<<"T", "h", "a", "i", "l", "a", "n", "d">>, <<"T", "H">>>>,
     <<<<"S", "i", "n", "g", "a", "p", "o", "r", "e">>, <<"S", "G">>>>,
     <<<<"P", "h", "i", "l", "i", "p", "p", "i", "n", "e", "s">>, <<"P", "H">>>>,
     <<<<"M", "a", "l", "a", "y", "s", "i", "a">>, <<"M", "Y">>>>,
     <<<<"I", "n", "d", "o", "n", "e", "s", "i", "a">>, <<"I", "D">>>>,
     <<<<"V", "i", "e", "t", "n", "a", "m">>, <<"V", "N">>>>,
     <<<<"C", "h", "i", "l", "e">>, <<"C", "L">>>>,
     <<<<"C", "o", "l", "o", "m", "b", "i", "a">>, <<"C", "O">>>>,
     <<<<"P", "e", "r", "u">>, <<"P", "E">>>>,
     <<<<"V", "e", "n", "e", "z", "u", "e", "l", "a">>, <<"V", "E">>>>,
     <<<<"U", "k", "r", "a", "i", "n", "e">>, <<"U", "A">>>>,
     <<<<"R", "o", "m", "a", "n", "i", "a">>, <<"R", "O">>>>,
     <<<<"B", "u", "l", "g", "a", "r", "i", "a">>, <<"B", "G">>>>,
     <<<<"C", "r", "o", "a", "t", "i", "a">>, <<"H", "R">>>>,
     <<<<"S", "e", "r", "b", "i", "a">>, <<"R", "S">>>>,
     <<<<"S", "l", "o", "v", "e", "n", "i", "a">>, <<"S", "I">>>>,
     <<<<"S", "l", "o", "v", "a", "k", "i", "a">>, <<"S", "K">>>>,
     <<<<"L", "i", "t", "h", "u", "a", "n", "i", "a">>, <<"L", "T">>>>,
     <<<<"L", "a", "t", "v", "i", "a">>, <<"L", "V">>>>,
     <<<<"E", "s", "t", "o", "n", "i", "a">>, <<"E", "E">>>>,
     <<<<"I", "c", "e", "l", "a", "n", "d">>, <<"I", "S">>>>,
     <<<<"L", "u", "x", "e", "m", "b", "o", "u", "r", "g">>, <<"L", "U">>>>,
     <<<<"M", "a", "l", "t", "a">>, <<"M", "T">>>>,
     <<<<"C", "y", "p", "r", "u", "s">>, <<"C", "Y">>>>}

\* _create_astrological_subject_from_chart_data's nation:
\* _map_country_to_code(get('birth_country', 'US'))
DynSynastryNation(raw) == Resolve(DynSynastryMapping, Get(raw, Str(<<"U", "S">>)))

(***************************************************************************)
(* float(x) as the generator uses it on coordinates, in tenths of a degree  *)
(***************************************************************************)
PyFloat(v) ==
    IF v.t = "num" THEN [ok |-> TRUE, v |-> v.n]
    ELSE IF v.t /= "str" THEN [ok |-> FALSE, v |-> 0]
    ELSE LET b == RStrip(LStrip(v.s))
             neg == Len(b) > 0 /\ b[1] = "-"
             u == IF Len(b) > 0 /\ b[1] \in {"+", "-"} THEN Tail(b) ELSE b
             p == Split(u, ".")
             whole == p[1]
             frac == IF Len(p) = 2 THEN p[2] ELSE <<>>
             okay == Len(p) \in {1, 2}
                     /\ (whole = <<>> \/ AllDigits(whole))
                     /\ (frac = <<>> \/ AllDigits(frac))
                     /\ (whole /= <<>> \/ frac /= <<>>)
             mag == 10 * DecVal(whole) + (IF frac = <<>> THEN 0 ELSE DigitVal(frac[1]))
         IN  IF okay THEN [ok |-> TRUE, v |-> IF neg THEN 0 - mag ELSE mag]
             ELSE [ok |-> FALSE, v |-> 0]

(***************************************************************************)
(* The requests the model draws from                                        *)
(***************************************************************************)
DateOnly == Str(<<"2", "0", "2", "4", "-", "0", "1", "-", "1", "5">>)
DateStamp == Str(<<"2", "0", "2", "4", "-", "0", "1", "-", "1", "5", "T", "1", "0", ":", "3", "0", ":", "0", "0", "Z">>)
DateStampNoZone == Str(<<"2", "0", "2", "4", "-", "0", "1", "-", "1", "5", "T", "1", "0", ":", "3", "0", ":", "0", "0">>)
DateGarbage == Str(<<"n", "o", "t", "-", "a", "-", "d", "a", "t", "e">>)
DateNoSuchDay == Str(<<"2", "0", "2", "4", "-", "0", "2", "-", "3", "0">>)
DateNumber == Num(19900101)

TimeHM == Str(<<"0", "9", ":", "3", "0">>)
TimeHMS == Str(<<"0", "9", ":", "3", "0", ":", "1", "5">>)
TimeLetters == Str(<<"a", "b", ":", "c", "d">>)
TimeFiveDigits == Str(<<"1", "2", "3", "4", "5">>)
TimeShort == Str(<<"9", ":", "3", "0">>)
TimeEightDigits == Str(<<"1", "2", "3", "4", "5", "6", "7", "8">>)
TimeThreeParts == Str(<<"1", ":", "2", ":", "3">>)

NamePlain == Str(<<"B", "o", "b">>)
NameTransit == Str(<<"T", "r", "a", "n", "s", "i", "t", " ", "n", "o", "w">>)
NameTransits == Str(<<"T", "r", "a", "n", "s", "i", "t", "s", " ", "n", "o", "w">>)
NameLowerTransit == Str(<<"t", "r", "a", "n", "s", "i", "t", " ", "n", "o", "w">>)

CoordText == Str(<<"4", "8", ".", "8">>)
CoordGarbage == Str(<<"a", "b", "c">>)

BirthDates == {Absent, None, DateNumber, DateOnly, DateStamp, DateStampNoZone,
               DateGarbage, DateNoSuchDay}
BirthTimes == {Absent, None, TimeHM, TimeHMS, TimeLetters, TimeFiveDigits, TimeShort,
               TimeEightDigits, TimeThreeParts}
Coordinates == {<<Absent, Absent>>, <<Num(488), Num(23)>>, <<Num(0), Num(23)>>,
                <<CoordText, CoordText>>, <<CoordGarbage, Num(23)>>}
\* "unhashable" stands for a JSON array or object given as the value
HouseSystems == {"absent", "placidus", "whole-sign", "campanus", "koch", "unhashable"}
Zodiacs == {"absent", "tropical", "lahiri-vedic", "galactic"}
Rulerships == {"absent", "traditional", "modern", "other"}
Timezones == {"", "Europe/Paris"}

\* a birth record as the request carries it (chart_data, synastry_data);
\* present is FALSE for a missing or empty object
Record(pres, nm, bd, bt, co, tz) ==
    [present |-> pres, name |-> nm, birth_date |-> bd, birth_time |-> bt,
     birth_country |-> Absent,
     birth_latitude |-> co[1], birth_longitude |-> co[2], birth_timezone |-> tz]

NoRecord == Record(FALSE, Absent, Absent, Absent, <<Absent, Absent>>, "")
PlainRecord == Record(TRUE, NamePlain, DateOnly, TimeHM, <<Absent, Absent>>, "")

Prefs(h, z, ru) == [houseSystem |-> h, zodiac |-> z, rulership |-> ru]
NoPrefs == Prefs("absent", "absent", "absent")

\* the primary records: one field away from the plain record
PrimaryRecords ==
    {NoRecord}
    \cup {[PlainRecord EXCEPT !.birth_date = d] : d \in BirthDates}
    \cup {[PlainRecord EXCEPT !.birth_time = tm] : tm \in BirthTimes}
    \cup {[PlainRecord EXCEPT !.birth_latitude = c[1], !.birth_longitude = c[2],
                              !.birth_timezone = z] : c \in Coordinates, z \in Timezones}

\* the second payloads: absent, or a record named plainly or as transits
SecondRecords ==
    {NoRecord}
    \cup {[PlainRecord EXCEPT !.name = nm] :
            nm \in {NamePlain, NameTransit, NameTransits, NameLowerTransit, Absent, None}}
    \cup {[PlainRecord EXCEPT !.name = nm, !.birth_date = DateGarbage] :
            nm \in {NamePlain, NameTransit}}
    \cup {[PlainRecord EXCEPT !.name = nm, !.birth_latitude = Num(407),
                              !.birth_longitude = Num(0 - 740)] :
            nm \in {NamePlain, NameTransit}}
    \cup {[PlainRecord EXCEPT !.birth_latitude = CoordGarbage, !.birth_longitude = Num(23)]}

PrefSets ==
    {Prefs(h, "absent", "absent") : h \in HouseSystems}
    \cup {Prefs("absent", z, "absent") : z \in Zodiacs}
    \cup {Prefs("absent", "absent", ru) : ru \in Rulerships}

\* a request: its record is carried in the chart_data sub-object ("chart_data"),
\* in top-level birth_* fields ("top") or in chart_birth_* fields ("profile")
Request(body, tr, cd, prefs, syn) ==
    [body |-> body, is_transit |-> tr, chart_data |-> cd,
     user_preferences |-> prefs, synastry_data |-> syn,
     source_type |-> "absent", where |-> "chart_data"]

\* the second payloads every primary record is paired with
BasicSeconds == {NoRecord, PlainRecord, [PlainRecord EXCEPT !.name = NameTransit]}

\* input_data of generate_chart: every flag/second-payload combination with
\* the primary record, the second payload, or the preferences, varied
ChartRequests ==
    {Request("object", tr, cd, NoPrefs, syn) :
        tr \in BOOLEAN, cd \in PrimaryRecords, syn \in BasicSeconds}
    \cup {Request("object", tr, PlainRecord, NoPrefs, syn) :
        tr \in BOOLEAN, syn \in SecondRecords}
    \cup {Request("object", tr, PlainRecord, pf, syn) :
        tr \in BOOLEAN, pf \in PrefSets, syn \in BasicSeconds}
    \cup {Request(b, FALSE, NoRecord, NoPrefs, NoRecord) : b \in {"empty", "malformed"}}

SourceTypes == {"absent", "user_profile", "idol", "chart", "processed_chart_data",
                "generic"}
Countries == {Absent, Str(<<"G", "B">>)}

\* chart_input of DynamicNatalGenerator.generate_chart
DynRequests ==
    {[Request("object", FALSE, [cd EXCEPT !.birth_country = c], NoPrefs, NoRecord)
        EXCEPT !.source_type = st, !.where = w] :
        st \in SourceTypes, w \in {"top", "profile", "chart_data"}, c \in Countries,
        cd \in {[PlainRecord EXCEPT !.birth_date = d] :
                   d \in {Absent, DateOnly, DateStamp, DateGarbage}}
               \cup {[PlainRecord EXCEPT !.birth_time = tm] :
                   tm \in {Absent, TimeLetters}}
               \cup {[PlainRecord EXCEPT !.name = Absent], NoRecord}}
    \cup {Request("malformed", FALSE, NoRecord, NoPrefs, NoRecord)}

\* the requests of the concurrent runs: the four flag/second-payload shapes
ConcChartRequests ==
    {Request("object", tr, PlainRecord, NoPrefs, syn) :
        tr \in BOOLEAN, syn \in {NoRecord, [PlainRecord EXCEPT !.name = NameTransit]}}
    \cup {Request("object", TRUE, NoRecord, NoPrefs, NoRecord)}

ConcDynRequests ==
    {[Request("object", FALSE, [PlainRecord EXCEPT !.birth_country = Str(<<"G", "B">>)],
              NoPrefs, NoRecord) EXCEPT !.source_type = "chart", !.where = "top"]}

(***************************************************************************)
(* Preferences and active points                                            *)
(***************************************************************************)
\* map_house_system
map_house_system(house_system) ==
    CASE house_system = "placidus" -> "P"
      [] house_system = "whole-sign" -> "W"
      [] house_system = "campanus" -> "C"
      [] OTHER -> "P"

\* the dictionary lookup of map_house_system hashes its key: a list or a
\* dict as the key raises TypeError
HouseSystemError(house_system) ==
    IF house_system = "unhashable" THEN Exc("TypeError", 23) ELSE NoExc

ClassicalPlanets == <<"Sun", "Moon", "Mercury", "Venus", "Mars", "Jupiter", "Saturn">>
ModernPlanets == ClassicalPlanets \o <<"Uranus", "Neptune", "Pluto", "Mean_Node">>
Angles == <<"Ascendant", "Medium_Coeli">>

\* get_active_points
get_active_points(rulership, is_transit) ==
    LET planets == IF rulership = "traditional" THEN ClassicalPlanets ELSE ModernPlanets
    IN  IF is_transit THEN planets ELSE planets \o Angles

\* user_preferences.get(key, default)
Pref(v, default) == IF v = "absent" THEN default ELSE v

(***************************************************************************)
(* The library's objects                                                    *)
(***************************************************************************)
\* the house and cusp data a subject holds once the library has computed them
ComputedHouses == <<"First_House", "Seventh_House">>
ComputedCusps == <<0, 180>>

NoSubject ==
    [class |-> "none", year |-> 0, month |-> 0, day |-> 0, hour |-> 0, minute |-> 0,
     located |-> "none", lat |-> 0, lng |-> 0, tz_str |-> "",
     houses_system_identifier |-> "", zodiac_type |-> "", sidereal_mode |-> "",
     disable_chiron |-> FALSE, houses_list |-> <<>>, cusps |-> <<>>]

\* a subject as its constructor leaves it; located is "coords" (lng, lat and
\* tz_str given, in tenths of a degree) or "city" (city and nation given)
Subject(class, info, located, lat, lng, tz, hsys, zt, sm, houses) ==
    [class |-> class, year |-> info.year, month |-> info.month, day |-> info.day,
     hour |-> info.hour, minute |-> info.minute,
     located |-> located, lat |-> lat, lng |-> lng, tz_str |-> tz,
     houses_system_identifier |-> hsys, zodiac_type |-> zt, sidereal_mode |-> sm,
     disable_chiron |-> TRUE,
     houses_list |-> IF houses THEN ComputedHouses ELSE <<>>,
     cusps |-> IF houses THEN ComputedCusps ELSE <<>>]

\* a wipe that forgets the cusps
WipeHouses_HousesOnly(subj) == [subj EXCEPT !.houses_list = <<>>]

\* the wipe of the house data of a subject (houses_list, houses_dict, cusps
\* and the other house attributes)
WipeHouses(subj) == [subj EXCEPT !.houses_list = <<>>, !.cusps = <<>>]

\* the clearing of the chart object's subject: houses_list and houses only
ClearHousesList(subj) == [subj EXCEPT !.houses_list = <<>>]

\* the attribute under which the library's chart object keeps its first
\* subject; the generator probes first_subject, subject and user
ChartAttrs == {"first_subject", "user", "other"}

NoChart ==
    [class |-> "none", label |-> "", first |-> "none", second |-> "none",
     attr |-> "other", new_output_directory |-> 0 - 1, active_points |-> <<>>,
     skip_houses |-> FALSE]

\* a chart drawer; first and second name the local variables whose subjects
\* it was given
Chart(class, first, label, second, attr, dir, points, skip) ==
    [class |-> class, label |-> label, first |-> first, second |-> second,
     attr |-> attr, new_output_directory |-> dir, active_points |-> points,
     skip_houses |-> skip]

(***************************************************************************)
(* State                                                                    *)
(***************************************************************************)
HouseMethods == {"_draw_houses", "_calculate_cusps"}
OriginalClass == [m \in HouseMethods |-> "original"]
NoopClass == [m \in HouseMethods |-> "noop"]
\* original_methods = {}: no method saved
NoMethods == [m \in HouseMethods |-> "unsaved"]

MaxRequests == 2
NumSlots == 2
Slots == 1..NumSlots

\* the process a request runs in: the HTTP service is process 0, each run of
\* a command-line program is a process of its own
ServiceProcess == 0
Processes == 0..NumSlots

TmpDir == 0

VARIABLES
    active,     \* the request slots in use: one for sequential runs, two for concurrent
    started,    \* the number of requests started so far
    chart_class, \* per process: KerykeionChartSVG's house/cusp/division methods
    dirs,       \* the directories that exist
    files,      \* the artifact files: [dir, by, ctime, kind]
    clock,      \* the file system's creation clock
    req,        \* per slot: the request in it and its locals
    fn_call     \* a pure function applied to an argument: [fn, arg, res]

vars == <<active, started, chart_class, dirs, files, clock, req, fn_call>>

NoContent == [by |-> 0, kind |-> "none", methods |-> OriginalClass, filtered |-> FALSE]
NoFile == [dir |-> 0 - 1, by |-> 0, ctime |-> 0, kind |-> "none", methods |-> OriginalClass]
NoCall == [made |-> FALSE, methods |-> OriginalClass, first |-> NoSubject,
           second |-> NoSubject, label |-> "", class |-> "none",
           active_points |-> <<>>, dir |-> 0 - 1]
NoResponse == [kind |-> "none", status |-> 0, error_chars |-> 0, content |-> NoContent]

IdleReq ==
    [pc |-> "idle", id |-> 0, entry |-> "none",
     input |-> Request("empty", FALSE, NoRecord, NoPrefs, NoRecord),
     original_methods |-> NoMethods,
     first_subject |-> NoSubject, second_subject |-> NoSubject,
     transit_subject |-> NoSubject, chart_svg |-> NoChart,
     temp_dir |-> 0 - 1, svg_file |-> NoFile, call |-> NoCall, svg_content |-> NoContent,
     exc |-> NoExc, stage |-> "", stdout |-> <<>>, response |-> NoResponse]

ProcOf(r) == IF req[r].entry = "http" THEN ServiceProcess ELSE r

(***************************************************************************)
(* Helpers of the actions                                                   *)
(***************************************************************************)
\* the lengths of the messages of the library's own exceptions
\* concurrent runs draw the library's outcomes from the smaller sets
Sequential == Cardinality(active) = 1

LibMsgLens == IF Sequential THEN {12, 90} ELSE {90}
LibErrors == {Exc("KerykeionException", n) : n \in LibMsgLens}
AttrOutcomes == IF Sequential THEN ChartAttrs ELSE {"user"}

Set(r, new) == req' = [req EXCEPT ![r] = new]

\* the exception leaves generate_chart: to the scope's exit when a scoped
\* output location is open, to the caller otherwise
Raise(r, e, stage, to) ==
    Set(r, [req[r] EXCEPT !.exc = e, !.stage = stage, !.pc = to])

\* `if latitude and longitude and latitude != 0 and longitude != 0`
HasCoordinates(rec) ==
    /\ Truthy(rec.birth_latitude) /\ Truthy(rec.birth_longitude)
    /\ rec.birth_latitude /= Num(0) /\ rec.birth_longitude /= Num(0)

\* float(longitude), float(latitude): the first that fails raises
CoordError(rec) ==
    IF ~PyFloat(rec.birth_longitude).ok
    THEN Exc("ValueError", 38 + ReprLen(rec.birth_longitude))
    ELSE IF ~PyFloat(rec.birth_latitude).ok
    THEN Exc("ValueError", 38 + ReprLen(rec.birth_latitude))
    ELSE NoExc

ZodiacType(zodiac) == IF zodiac = "lahiri-vedic" THEN "Sidereal" ELSE "Tropic"
SiderealMode(zodiac) == IF zodiac = "lahiri-vedic" THEN "LAHIRI" ELSE ""

\* the subject constructed from a parsed record: explicit coordinates and
\* the supplied or "UTC" timezone, or city and nation
SubjectFor(cls, rec, info, prefs, houses) ==
    LET hs == map_house_system(Pref(prefs.houseSystem, "placidus"))
        zd == Pref(prefs.zodiac, "tropical")
    IN  IF HasCoordinates(rec)
        THEN Subject(cls, info, "coords",
                     PyFloat(rec.birth_latitude).v, PyFloat(rec.birth_longitude).v,
                     IF rec.birth_timezone /= "" THEN rec.birth_timezone ELSE "UTC",
                     hs, ZodiacType(zd), SiderealMode(zd), houses)
        ELSE Subject(cls, info, "city", 0, 0, "", hs, ZodiacType(zd), SiderealMode(zd),
                     houses)

\* the houses a freshly constructed subject holds: the library computes them
\* for an AstrologicalSubject; for a TransitSubject it computes them or not,
\* as it does or does not go through the overridden _calculate_houses
HouseOutcomes(cls) == IF cls = "TransitSubject" /\ Sequential THEN BOOLEAN ELSE {TRUE}

\* the local variable a chart's first subject aliases
Local(q, name) ==
    CASE name = "first_subject" -> q.first_subject
      [] name = "second_subject" -> q.second_subject
      [] name = "transit_subject" -> q.transit_subject
      [] OTHER -> NoSubject

SetLocal(q, name, subj) ==
    CASE name = "first_subject" -> [q EXCEPT !.first_subject = subj]
      [] name = "second_subject" -> [q EXCEPT !.second_subject = subj]
      [] name = "transit_subject" -> [q EXCEPT !.transit_subject = subj]
      [] OTHER -> q

FilesIn(d) == {f \in files : f.dir = d}

(***************************************************************************)
(* Entry points                                                             *)
(***************************************************************************)
Others == <<active, started, chart_class, dirs, files, clock, fn_call>>

\* the requests an entry point is given; concurrent runs draw from the
\* smaller sets
RequestsOf(entry) ==
    IF Sequential
    THEN (IF entry = "dynamic" THEN DynRequests ELSE ChartRequests)
    ELSE (IF entry = "dynamic" THEN ConcDynRequests ELSE ConcChartRequests)

\* a request arrives: at the HTTP service, or as a run of the command-line
\* program (a new process, with the library's classes as imported)
Start(r) ==
    /\ req[r].pc = "idle"
    /\ started < MaxRequests
    /\ \E entry \in {"http", "main", "dynamic"} : \E inp \in RequestsOf(entry) :
          /\ Set(r, [IdleReq EXCEPT !.pc = "entry", !.id = started + 1,
                                    !.entry = entry, !.input = inp])
          /\ chart_class' = IF entry = "http" THEN chart_class
                            ELSE [chart_class EXCEPT ![r] = OriginalClass]
    /\ started' = started + 1
    /\ UNCHANGED <<active, dirs, files, clock, fn_call>>

\* generate_chart_endpoint up to its call of generate_chart
EndpointEnter(r) ==
    LET q == req[r] IN
    /\ q.pc = "entry" /\ q.entry = "http"
    /\ IF q.input.body = "malformed"
       THEN Raise(r, Exc("BadRequest", 90), "get_json", "respond")
       ELSE IF q.input.body = "empty"
       THEN Set(r, [q EXCEPT !.pc = "done", !.stage = "no_input",
                             !.response = [kind |-> "error_payload", status |-> 400,
                                           error_chars |-> 22, content |-> NoContent]])
       ELSE Set(r, [q EXCEPT !.pc = "patch", !.stdout = Append(@, "flask_debug")])
    /\ UNCHANGED Others

\* main up to its call of generate_chart
MainEnter(r) ==
    LET q == req[r] IN
    /\ q.pc = "entry" /\ q.entry = "main"
    /\ IF q.input.body = "malformed"
       THEN Raise(r, Exc("JSONDecodeError", 40), "json_loads", "respond")
       ELSE Set(r, [q EXCEPT !.pc = "patch"])
    /\ UNCHANGED Others

(***************************************************************************)
(* generate_chart                                                           *)
(***************************************************************************)
\* what a transit request records as the methods' originals: their values
\* at this moment
SaveMethods(cls) == cls

\* the replacement of the class's house/cusp/division methods
Monkeypatch(r) ==
    LET q == req[r] IN
    /\ q.pc = "patch"
    /\ IF q.input.is_transit
       THEN /\ Set(r, [q EXCEPT !.pc = "parse",
                                !.original_methods = SaveMethods(chart_class[ProcOf(r)]),
                                !.stdout = Append(@, "transit_debug")])
            /\ chart_class' = [chart_class EXCEPT ![ProcOf(r)] = NoopClass]
       ELSE /\ Set(r, [q EXCEPT !.pc = "parse"])
            /\ UNCHANGED chart_class
    /\ UNCHANGED <<active, started, dirs, files, clock, fn_call>>

\* chart_data is required; then parse_birth_data(chart_data)
ParsePrimary(r) ==
    LET q == req[r]
        cd == q.input.chart_data
        parsed == ParseBirthData(cd)
    IN
    /\ q.pc = "parse"
    /\ IF ~cd.present
       THEN Raise(r, Exc("ValueError", NoChartDataMsgLen), "chart_data", "respond")
       ELSE IF parsed.exc /= NoExc
       THEN Raise(r, parsed.exc,
                  IF ParseDate(cd.birth_date).exc /= NoExc THEN "birth_date" ELSE "birth_time",
                  "respond")
       ELSE Set(r, [q EXCEPT !.pc = "subject"])
    /\ UNCHANGED Others

\* the first subject, from the primary record, and the wipe of its house
\* data when is_transit is set
ConstructFirst(r) ==
    LET q == req[r]
        cd == q.input.chart_data
        info == ParseBirthData(cd).info
        cls == IF q.input.is_transit THEN "TransitSubject" ELSE "AstrologicalSubject"
    IN
    /\ q.pc = "subject"
    /\ IF HouseSystemError(Pref(q.input.user_preferences.houseSystem, "placidus")) /= NoExc
       THEN Raise(r, HouseSystemError(q.input.user_preferences.houseSystem),
                  "preferences", "respond")
       ELSE IF HasCoordinates(cd) /\ CoordError(cd) /= NoExc
       THEN Raise(r, CoordError(cd), "coordinates", "respond")
       ELSE \/ \E e \in LibErrors : Raise(r, e, "first_subject", "respond")
            \/ \E h \in HouseOutcomes(cls) :
                 LET made == SubjectFor(cls, cd, info, q.input.user_preferences, h)
                 IN  Set(r, [q EXCEPT !.pc = "tempdir",
                                      !.first_subject =
                                          IF q.input.is_transit THEN WipeHouses(made)
                                          ELSE made])
    /\ UNCHANGED Others

\* with tempfile.TemporaryDirectory() as temp_dir: a directory no other
\* request has
NewTempDir(r) == req[r].id

EnterTempDir(r) ==
    LET q == req[r] IN
    /\ q.pc = "tempdir"
    /\ Set(r, [q EXCEPT !.pc = "chart", !.temp_dir = NewTempDir(r)])
    /\ dirs' = dirs \cup {NewTempDir(r)}
    /\ UNCHANGED <<active, started, chart_class, files, clock, fn_call>>

\* the second payload's name begins with a transit prefix
is_transit_chart(syn) ==
    LET nm == Get(syn.name, Str(<<>>))
    IN  StartsWith(nm.s, <<"T", "r", "a", "n", "s", "i", "t", " ">>) \/ StartsWith(nm.s, <<"T", "r", "a", "n", "s", "i", "t", "s", " ">>)

\* the lines after a chart object is made, when is_transit is set: the house
\* list of the subject held as first_subject or subject is emptied
ClearChartSubject(q) ==
    IF q.input.is_transit /\ q.chart_svg.attr \in {"first_subject", "subject"}
    THEN SetLocal(q, q.chart_svg.first,
                  ClearHousesList(Local(q, q.chart_svg.first)))
    ELSE q

\* the second subject as generate_chart leaves it after constructing it
SecondSubject(made) == made

\* the transit subject of a date-only transit chart: noon UTC at Greenwich,
\* its house data wiped after construction
TransitSubjectFor(q, houses) ==
    LET info == ParseBirthData(q.input.chart_data).info
        zd == Pref(q.input.user_preferences.zodiac, "tropical")
    IN  WipeHouses(Subject("TransitSubject",
                           [info EXCEPT !.hour = 12, !.minute = 0],
                           "coords", 515, 0, "UTC", "P",
                           ZodiacType(zd), SiderealMode(zd), houses))

\* inside the scope: the second subject when a second payload is given, and
\* the chart object for the request
BuildChart(r) ==
    LET q == req[r]
        syn == q.input.synastry_data
        tr == q.input.is_transit
        points == get_active_points(Pref(q.input.user_preferences.rulership, "modern"), tr)
        parsed == ParseBirthData(syn)
    IN
    /\ q.pc = "chart"
    /\ IF syn.present
       THEN IF ~IsStr(Get(syn.name, Str(<<>>)))
            THEN Raise(r, Exc("AttributeError", 46), "second_name", "exit")
            ELSE IF parsed.exc /= NoExc
            THEN Raise(r, parsed.exc, "second_record", "exit")
            ELSE IF HasCoordinates(syn) /\ CoordError(syn) /= NoExc
            THEN Raise(r, CoordError(syn), "second_coordinates", "exit")
            ELSE \/ \E e \in LibErrors : Raise(r, e, "second_subject", "exit")
                 \/ \E a \in AttrOutcomes :
                      LET second == SecondSubject(
                                        SubjectFor("AstrologicalSubject", syn, parsed.info,
                                                   q.input.user_preferences, TRUE))
                          chart ==
                            IF is_transit_chart(syn)
                            THEN Chart("KerykeionChartSVG", "first_subject", "Transit",
                                       "second_subject", a, q.temp_dir, points, FALSE)
                            ELSE IF tr
                            THEN Chart("NoHousesChartSVG", "first_subject", "Synastry",
                                       "second_subject", a, q.temp_dir, points, TRUE)
                            ELSE Chart("KerykeionChartSVG", "first_subject", "Synastry",
                                       "second_subject", a, q.temp_dir, points, FALSE)
                      IN  Set(r, ClearChartSubject(
                                   [q EXCEPT !.pc = "render", !.second_subject = second,
                                             !.chart_svg = chart]))
       ELSE IF tr
       THEN \/ \E e \in LibErrors : Raise(r, e, "transit_subject", "exit")
            \/ \E a \in AttrOutcomes, h \in HouseOutcomes("TransitSubject") :
                 Set(r, ClearChartSubject(
                          [q EXCEPT !.pc = "render",
                                    !.transit_subject = TransitSubjectFor(q, h),
                                    !.chart_svg =
                                        Chart("NoHousesChartSVG", "transit_subject", "",
                                              "none", a, q.temp_dir, points, TRUE)]))
       ELSE \E a \in AttrOutcomes :
                 Set(r, [q EXCEPT !.pc = "render",
                                  !.chart_svg =
                                      Chart("KerykeionChartSVG", "first_subject", "",
                                            "none", a, q.temp_dir, points, FALSE)])
    /\ UNCHANGED Others

\* NoHousesChartSVG.makeWheelOnlySVG before it calls the library: with
\* _skip_houses, the subject held as first_subject, subject or user loses
\* its houses and cusps
makeWheelOnlySVG(q) ==
    IF q.chart_svg.class = "NoHousesChartSVG" /\ q.chart_svg.skip_houses
       /\ q.chart_svg.attr \in {"first_subject", "subject", "user"}
    THEN SetLocal(q, q.chart_svg.first, WipeHouses(Local(q, q.chart_svg.first)))
    ELSE q

\* what the library's renderer is handed: the class's methods as they are at
\* the call, and the subjects as they are at the call
RenderCall(r, q) ==
    [made |-> TRUE, methods |-> chart_class[ProcOf(r)],
     first |-> Local(q, q.chart_svg.first), second |-> Local(q, q.chart_svg.second),
     label |-> q.chart_svg.label, class |-> q.chart_svg.class,
     active_points |-> q.chart_svg.active_points,
     dir |-> q.chart_svg.new_output_directory]

ArtifactKinds == IF Sequential THEN {"svg", "empty", "invalid"} ELSE {"svg"}

\* the rendering call, the library's output captured: the library raises,
\* writes no file, or writes one artifact file into the output directory
Render(r) ==
    LET q == makeWheelOnlySVG(req[r])
        call == RenderCall(r, q)
    IN
    /\ req[r].pc = "render" /\ req[r].entry /= "dynamic"
    /\ \/ /\ \E e \in LibErrors :
               Set(r, [q EXCEPT !.call = call, !.exc = e, !.stage = "renderer",
                                !.pc = "exit"])
          /\ UNCHANGED <<files, clock>>
       \/ /\ Set(r, [q EXCEPT !.call = call, !.pc = "collect"])
          /\ UNCHANGED <<files, clock>>
       \/ /\ \E k \in ArtifactKinds :
               files' = files \cup {[dir |-> call.dir, by |-> q.id, ctime |-> clock + 1,
                                     kind |-> k, methods |-> call.methods]}
          /\ clock' = clock + 1
          /\ Set(r, [q EXCEPT !.call = call, !.pc = "collect"])
    /\ UNCHANGED <<active, started, chart_class, dirs, fn_call>>

\* max(svg_files, key=os.path.getctime)
Newest(fs) == CHOOSE f \in fs : \A g \in fs : g.ctime <= f.ctime

\* the artifact is located in temp_dir and read
Collect(r) ==
    LET q == req[r]
        found == FilesIn(q.temp_dir)
    IN
    /\ q.pc = "collect"
    /\ IF found = {}
       THEN Raise(r, Exc("FileNotFoundError", NoSvgMsgLen), "no_artifact", "exit")
       ELSE IF Newest(found).kind /= "svg"
       THEN Raise(r, Exc("ValueError", EmptySvgMsgLen), "empty_artifact", "exit")
       ELSE Set(r, [q EXCEPT !.pc = "finish",
                             !.svg_content = [by |-> Newest(found).by, kind |-> "svg",
                                              methods |-> Newest(found).methods,
                                              filtered |-> FALSE]])
    /\ UNCHANGED Others

\* the class after a request's restore: each saved method is put back
RestoreMethods(cls, saved) ==
    [m \in HouseMethods |-> IF saved[m] = "unsaved" THEN cls[m] ELSE saved[m]]

\* the restore of the replaced methods, the final house removal, the return.
\* The house removal builds a second copy of the text line by line outside
\* any try block: when it raises (the allocation fails, MemoryError with an
\* empty message) the exception leaves generate_chart after the restore.
Finish(r) ==
    LET q == req[r] IN
    /\ q.pc = "finish"
    /\ chart_class' =
         IF q.input.is_transit /\ q.original_methods /= NoMethods
         THEN [chart_class EXCEPT ![ProcOf(r)] = RestoreMethods(@, q.original_methods)]
         ELSE chart_class
    /\ \E raised \in (IF q.input.is_transit THEN BOOLEAN ELSE {FALSE}) :
         IF raised
         THEN Raise(r, Exc("MemoryError", 0), "house_removal", "exit")
         ELSE Set(r, [q EXCEPT !.pc = "exit",
                              !.svg_content.filtered = q.input.is_transit])
    /\ UNCHANGED <<active, started, dirs, files, clock, fn_call>>

\* a scope that removes its directory on return only
TempDirExit_OnReturnOnly(r) ==
    IF req[r].exc = NoExc THEN dirs \ {req[r].temp_dir} ELSE dirs

\* the directories left when a request's scope is left
TempDirExit(r) == dirs \ {req[r].temp_dir}

\* the end of the with block, by return or by exception: the directory and
\* what is in it are removed
ExitTempDir(r) ==
    LET q == req[r] IN
    /\ q.pc = "exit"
    /\ dirs' = TempDirExit(r)
    /\ files' = {f \in files : f.dir \in dirs' }
    /\ Set(r, [q EXCEPT !.pc = "respond"])
    /\ UNCHANGED <<active, started, chart_class, clock, fn_call>>

(***************************************************************************)
(* What the caller receives                                                 *)
(***************************************************************************)
\* str(e)[:50] and error_message[:50]
MsgLimit == 50
Truncated(n) == IF n < MsgLimit THEN n ELSE MsgLimit

\* the fallback diagram of main: the placeholder with str(e)[:50]
ErrorSvg(e) ==
    [kind |-> "placeholder", status |-> 1, error_chars |-> Truncated(e.len),
     content |-> NoContent]

\* the except branch of generate_chart_endpoint: jsonify of str(e), status 500
ErrorJson(e) ==
    [kind |-> "error_payload", status |-> 500, error_chars |-> e.len,
     content |-> NoContent]

Rendering(q, status) ==
    [kind |-> "rendering", status |-> status, error_chars |-> 0,
     content |-> q.svg_content]

\* generate_chart_endpoint after generate_chart returned or raised
EndpointRespond(r) ==
    LET q == req[r] IN
    /\ q.pc = "respond" /\ q.entry = "http"
    /\ Set(r, [q EXCEPT !.pc = "done",
                        !.response = IF q.exc /= NoExc THEN ErrorJson(q.exc)
                                     ELSE Rendering(q, 200)])
    /\ UNCHANGED Others

\* main after generate_chart returned or raised: the SVG, or the fallback
\* diagram, is printed
MainRespond(r) ==
    LET q == req[r] IN
    /\ q.pc = "respond" /\ q.entry = "main"
    /\ Set(r, [q EXCEPT !.pc = "done",
                        !.response = IF q.exc /= NoExc THEN ErrorSvg(q.exc)
                                     ELSE Rendering(q, 0),
                        !.stdout = Append(@, IF q.exc /= NoExc THEN "placeholder"
                                             ELSE "svg")])
    /\ UNCHANGED Others

(***************************************************************************)
(* Post-processing of the markup.  A markup text is a sequence of pieces:   *)
(*   "svg"        <svg                                                      *)
(*   "xmlns"       xmlns="http://www.w3.org/2000/svg"                       *)
(*   "viewBox"     viewBox="0 0 400 400"                                    *)
(*   "size"        width="400" height="400"                                 *)
(*   "nl"         a newline                                                 *)
(*   "thin_line"  <line x1="0" y1="0" stroke-width="1"/>                    *)
(*   "text_open"  <text>        "num"  1        "text_close"  </text>       *)
(*   "house_path" <path class="house"/>                                     *)
(*   "glyph"      <path d="M0 0"/>                                          *)
(***************************************************************************)
Has(s, piece) == \E i \in 1..Len(s) : s[i] = piece

\* str.replace(piece, piece + new, 1): new is put after the first piece
InsertAfterFirst(s, piece, new) ==
    IF ~Has(s, piece) THEN s
    ELSE LET k == CHOOSE i \in 1..Len(s) : s[i] = piece /\ \A j \in 1..(i - 1) : s[j] /= piece
         IN  SubSeq(s, 1, k) \o <<new>> \o SubSeq(s, k + 1, Len(s))

\* _optimize_for_discord: the namespace when the text has none, then the
\* viewBox when the text has none and declares a width and a height
_optimize_for_discord(svg_content) ==
    LET named == IF Has(svg_content, "xmlns") THEN svg_content
                 ELSE InsertAfterFirst(svg_content, "svg", "xmlns")
    IN  IF Has(named, "viewBox") \/ ~Has(named, "size") THEN named
        ELSE InsertAfterFirst(named, "svg", "viewBox")

\* '\n'.join(lines)
RECURSIVE Join(_)
Join(lines) ==
    IF Len(lines) = 0 THEN <<>>
    ELSE IF Len(lines) = 1 THEN lines[1]
    ELSE lines[1] \o <<"nl">> \o Join(Tail(lines))

\* '>1<' or '>11<' in line: one or two digits between a piece that ends with
\* '>' and a piece that begins with '<'
HouseNumberIn(line) ==
    \E i \in 2..Len(line) : \E n \in {1, 2} :
        /\ i + n <= Len(line)
        /\ \A j \in i..(i + n - 1) : line[j] = "num"
        /\ line[i - 1] \in {"thin_line", "text_open", "text_close", "house_path", "glyph"}
        /\ line[i + n] \in {"svg", "thin_line", "text_open", "text_close", "house_path",
                            "glyph"}

\* aggressive_house_removal: the lines with a thin or gray <line, and the
\* lines with a <text and a house number, are dropped
aggressive_house_removal(svg_content) ==
    LET Kept(line) == ~(Has(line, "thin_line")
                        \/ (Has(line, "text_open") /\ HouseNumberIn(line)))
    IN  Join(SelectSeq(Split(svg_content, "nl"), Kept))

\* the number of consecutive pieces of one kind from position i on
RECURSIVE Run(_, _, _)
Run(s, i, piece) ==
    IF i <= Len(s) /\ s[i] = piece THEN 1 + Run(s, i + 1, piece) ELSE 0

\* re.sub of <text[^>]*>\s*N\s*</text> by '', N a number of n digits 1: the
\* matches are removed from left to right
RECURSIVE RemoveNumberedText(_, _)
RemoveNumberedText(s, n) ==
    IF Len(s) = 0 THEN <<>>
    ELSE LET p == 2 + Run(s, 2, "nl")
             q == p + n
             e == q + Run(s, q, "nl")
             matched == /\ s[1] = "text_open"
                        /\ Run(s, p, "num") >= n
                        /\ e <= Len(s) /\ s[e] = "text_close"
         IN  IF matched THEN RemoveNumberedText(SubSeq(s, e + 1, Len(s)), n)
             ELSE <<s[1]>> \o RemoveNumberedText(Tail(s), n)

\* remove_house_elements_from_svg: the <line elements with coordinates, the
\* <text elements holding a house number (1, then 11), the elements with
\* "house" in an attribute, the thin lines
remove_house_elements_from_svg(svg_content) ==
    LET NoLine(x) == x /= "thin_line"
        NoHouse(x) == x /= "house_path"
        unlined == SelectSeq(svg_content, NoLine)
        unnumbered == RemoveNumberedText(RemoveNumberedText(unlined, 1), 2)
    IN  SelectSeq(SelectSeq(unnumbered, NoHouse), NoLine)

\* str.strip(): the newlines at both ends are removed
RECURSIVE Strip(_)
Strip(s) ==
    IF Len(s) = 0 THEN s
    ELSE IF s[1] = "nl" THEN Strip(Tail(s))
    ELSE IF s[Len(s)] = "nl" THEN Strip(SubSeq(s, 1, Len(s) - 1))
    ELSE s

\* the end of generate_chart for a request with is_transit: the one call of
\* aggressive_house_removal, then svg_content.strip()
TransitPostProcessing(svg_content) == Strip(aggressive_house_removal(svg_content))

(***************************************************************************)
(* The fallback diagram: its size, its circle and its two lines of text     *)
(***************************************************************************)
\* error_message[:50], str(e)[:50]
Slice_Whole(message) == message

Slice(message) ==
    SubSeq(message, 1, IF Len(message) < MsgLimit THEN Len(message) ELSE MsgLimit)

\* the diagram both fallback generators format: main of the chart generator
\* (no viewBox) and _generate_error_svg (with one)
Placeholder(message, view_box) ==
    [exc |-> NoExc, width |-> 400, height |-> 400, viewBox |-> view_box, circles |-> 1,
     texts |-> <<"Chart Generation Error", Slice(message)>>]

(***************************************************************************)
(* DynamicNatalGenerator (dynamic-natal-generator.py)                       *)
(***************************************************************************)
\* the place each source type reads its fields from
SourcePlace(source_type) ==
    CASE source_type = "user_profile" -> "profile"
      [] source_type \in {"idol", "chart"} -> "top"
      [] OTHER -> "chart_data"

DefaultName(source_type) ==
    CASE source_type = "user_profile" -> Str(<<"P", "r", "o", "f", "i", "l", "e", " ", "C", "h", "a", "r", "t">>)
      [] source_type = "idol" -> Str(<<"C", "e", "l", "e", "b", "r", "i", "t", "y", " ", "C", "h", "a", "r", "t">>)
      [] source_type = "chart" -> Str(<<"S", "a", "v", "e", "d", " ", "C", "h", "a", "r", "t">>)
      [] OTHER -> Str(<<"P", "r", "o", "c", "e", "s", "s", "e", "d", " ", "C", "h", "a", "r", "t">>)

\* dict.get(key): None when the key is absent
GetNone(v) == Get(v, None)

\* chart_input.get('source_type', 'chart')
SourceTypeOf(chart_input) ==
    IF chart_input.source_type = "absent" THEN "chart" ELSE chart_input.source_type

\* _extract_chart_data
_extract_chart_data(chart_input, source_type) ==
    LET rec == IF chart_input.where = SourcePlace(source_type)
               THEN chart_input.chart_data ELSE NoRecord
    IN  IF source_type \in {"user_profile", "idol", "chart", "processed_chart_data"}
        THEN [present |-> TRUE,
              name |-> Get(rec.name, DefaultName(source_type)),
              birth_date |-> GetNone(rec.birth_date),
              birth_time |-> Get(rec.birth_time, Str(<<"1", "2", ":", "0", "0">>)),
              birth_country |-> GetNone(rec.birth_country)]
        ELSE [present |-> rec.present, name |-> rec.name, birth_date |-> rec.birth_date,
              birth_time |-> rec.birth_time, birth_country |-> rec.birth_country]

\* str(v) inside an f-string
PyStr(v) ==
    CASE v.t = "str" -> v.s
      [] v.t = "none" -> <<"N", "o", "n", "e">>
      [] OTHER -> <<"0">>

\* the date and time of _create_astrological_subject
DynBirthDatetime(chart_data) ==
    LET bd == GetNone(chart_data.birth_date)
        bt == Get(chart_data.birth_time, Str(<<"1", "2", ":", "0", "0", ":", "0", "0">>))
    IN  IF IsStr(bd)
        THEN LET s == IF Contains(bd.s, "T") THEN ReplaceZ(bd.s)
                      ELSE bd.s \o <<"T">> \o PyStr(bt)
                 r == FromIsoFormat(s)
             IN  IF r.ok THEN [exc |-> NoExc, date |-> r]
                 ELSE [exc |-> Exc("ValueError", 28 + Len(s)), date |-> BadDate]
        ELSE [exc |-> NoExc, date |-> GoodDate(1990, 1, 1, 12, 0)]

\* _create_astrological_subject up to the library's constructor
_create_astrological_subject(chart_data) ==
    LET dt == DynBirthDatetime(chart_data)
        country == Get(chart_data.birth_country, Str(<<"G", "B">>))
    IN  IF dt.exc /= NoExc THEN [exc |-> dt.exc, subject |-> NoSubject]
        ELSE IF ~IsStr(country)
        THEN [exc |-> Exc("TypeError", 38), subject |-> NoSubject]
        ELSE [exc |-> NoExc,
              subject |-> [Subject("AstrologicalSubject",
                                   [year |-> dt.date.year, month |-> dt.date.month,
                                    day |-> dt.date.day, hour |-> dt.date.hour,
                                    minute |-> dt.date.minute],
                                   "city", 0, 0, "", "P", "Tropic", "", TRUE)
                             EXCEPT !.disable_chiron = FALSE]]

\* the time of _create_astrological_subject_from_chart_data
DynSynastryTime(chart_data) ==
    LET v == Get(chart_data.birth_time, Str(<<"1", "2", ":", "0", "0">>))
        p == Split(v.s, ":")
    IN  IF ~IsStr(v) THEN TimeError(44)
        ELSE IF ~PyInt(p[1]).ok THEN TimeError(42 + Len(p[1]))
        ELSE IF Len(p) > 1 /\ ~PyInt(p[2]).ok THEN TimeError(42 + Len(p[2]))
        ELSE [exc |-> NoExc, hour |-> PyInt(p[1]).v,
              minute |-> IF Len(p) > 1 THEN PyInt(p[2]).v ELSE 0]

\* _generate_error_svg: the placeholder with error_message[:50]
_generate_error_svg(message_len) ==
    [kind |-> "placeholder", status |-> 0, error_chars |-> Truncated(message_len),
     content |-> NoContent]

\* the fixed "Chart System Error" diagram of main
FatalSvg ==
    [kind |-> "placeholder", status |-> 1, error_chars |-> 0, content |-> NoContent]

\* "Generation failed: {type}: {text}"
GenerationFailed(e) == _generate_error_svg(19 + 12 + e.len)

\* main and generate_chart up to the subject: the input is read, the record
\* extracted and the subject constructed
DynEnter(r) ==
    LET q == req[r]
        source_type == SourceTypeOf(q.input)
        chart_data == _extract_chart_data(q.input, source_type)
        made == _create_astrological_subject(chart_data)
    IN
    /\ q.pc = "entry" /\ q.entry = "dynamic"
    /\ IF q.input.body = "malformed"
       THEN Set(r, [q EXCEPT !.pc = "done", !.stage = "json_loads",
                             !.exc = Exc("JSONDecodeError", 40),
                             !.response = FatalSvg,
                             !.stdout = Append(@, "placeholder")])
       ELSE IF ~chart_data.present
       THEN Set(r, [q EXCEPT !.pc = "respond", !.stage = "chart_data",
                             !.response = _generate_error_svg(18)])
       ELSE IF made.exc /= NoExc
       THEN Set(r, [q EXCEPT !.pc = "respond", !.stage = "subject", !.exc = made.exc,
                             !.response = GenerationFailed(made.exc)])
       ELSE \/ \E e \in LibErrors :
                 Set(r, [q EXCEPT !.pc = "respond", !.stage = "first_subject", !.exc = e,
                                  !.response = GenerationFailed(e)])
            \/ \E a \in AttrOutcomes :
                 Set(r, [q EXCEPT !.pc = "render", !.first_subject = made.subject,
                                  !.chart_svg =
                                      Chart("KerykeionChartSVG", "first_subject", "",
                                            "none", a, TmpDir, <<>>, FALSE)])
    /\ UNCHANGED Others

\* the renderer is called in /tmp: it raises, writes no file, or writes one
\* artifact file there
DynRender(r) ==
    LET q == req[r]
        call == RenderCall(r, q)
    IN
    /\ q.pc = "render" /\ q.entry = "dynamic"
    /\ \/ /\ \E e \in LibErrors :
               Set(r, [q EXCEPT !.call = call, !.exc = e, !.stage = "renderer",
                                !.pc = "respond", !.response = GenerationFailed(e)])
          /\ UNCHANGED <<files, clock>>
       \/ /\ Set(r, [q EXCEPT !.call = call, !.pc = "locate"])
          /\ UNCHANGED <<files, clock>>
       \/ /\ \E k \in ArtifactKinds :
               files' = files \cup {[dir |-> TmpDir, by |-> q.id, ctime |-> clock + 1,
                                     kind |-> k, methods |-> call.methods]}
          /\ clock' = clock + 1
          /\ Set(r, [q EXCEPT !.call = call, !.pc = "locate"])
    /\ UNCHANGED <<active, started, chart_class, dirs, fn_call>>

\* glob of /tmp/*.svg and the choice of the most recently created file
DynLocate(r) ==
    LET q == req[r]
        found == FilesIn(TmpDir)
    IN
    /\ q.pc = "locate"
    /\ IF found = {}
       THEN Set(r, [q EXCEPT !.pc = "respond", !.stage = "no_artifact",
                             !.response = _generate_error_svg(36)])
       ELSE Set(r, [q EXCEPT !.pc = "read", !.svg_file = Newest(found)])
    /\ UNCHANGED Others

\* the chosen file is read and removed; its content is returned through
\* _optimize_for_discord, whose except branch returns the text it was given
DynRead(r) ==
    LET q == req[r] IN
    /\ q.pc = "read"
    /\ IF q.svg_file \in files
       THEN /\ files' = files \ {q.svg_file}
            /\ \E raised \in BOOLEAN :
               Set(r, [q EXCEPT !.pc = "respond",
                                !.stage = IF raised THEN "optimize" ELSE @,
                                !.svg_content = [by |-> q.svg_file.by,
                                                 kind |-> q.svg_file.kind,
                                                 methods |-> q.svg_file.methods,
                                                 filtered |-> FALSE],
                                !.response = Rendering(
                                    [q EXCEPT !.svg_content =
                                        [by |-> q.svg_file.by, kind |-> q.svg_file.kind,
                                         methods |-> q.svg_file.methods,
                                         filtered |-> FALSE]], 0)])
       ELSE /\ UNCHANGED files
            /\ Set(r, [q EXCEPT !.pc = "respond", !.stage = "artifact_gone",
                                !.exc = Exc("FileNotFoundError", 60),
                                !.response = GenerationFailed(Exc("FileNotFoundError", 60))])
    /\ UNCHANGED <<active, started, chart_class, dirs, clock, fn_call>>

\* main prints what generate_chart returned
DynRespond(r) ==
    LET q == req[r] IN
    /\ q.pc = "respond" /\ q.entry = "dynamic"
    /\ Set(r, [q EXCEPT !.pc = "done",
                        !.stdout = Append(@, IF q.response.kind = "rendering" THEN "svg"
                                             ELSE "placeholder")])
    /\ UNCHANGED Others

\* the caller has its response; the request's locals are gone
Retire(r) ==
    /\ req[r].pc = "done"
    /\ Set(r, IdleReq)
    /\ UNCHANGED Others

(***************************************************************************)
(* Specifications                                                           *)
(***************************************************************************)
NoFnCall == [fn |-> "none", arg |-> None, res |-> NoonTime, done |-> TRUE]

InitWith(slots) ==
    /\ active = slots
    /\ started = 0
    /\ chart_class = [p \in Processes |-> OriginalClass]
    /\ dirs = {TmpDir}
    /\ files = {}
    /\ clock = 0
    /\ req = [s \in Slots |-> IdleReq]
    /\ fn_call = NoFnCall

\* one request at a time
Init == InitWith({1})

\* two requests in flight
InitConc == InitWith({1, 2})

Next ==
    \/ \E r \in active : Start(r)
    \/ \E r \in active : EndpointEnter(r)
    \/ \E r \in active : MainEnter(r)
    \/ \E r \in active : Monkeypatch(r)
    \/ \E r \in active : ParsePrimary(r)
    \/ \E r \in active : ConstructFirst(r)
    \/ \E r \in active : EnterTempDir(r)
    \/ \E r \in active : BuildChart(r)
    \/ \E r \in active : Render(r)
    \/ \E r \in active : Collect(r)
    \/ \E r \in active : Finish(r)
    \/ \E r \in active : ExitTempDir(r)
    \/ \E r \in active : EndpointRespond(r)
    \/ \E r \in active : MainRespond(r)
    \/ \E r \in active : DynEnter(r)
    \/ \E r \in active : DynRender(r)
    \/ \E r \in active : DynLocate(r)
    \/ \E r \in active : DynRead(r)
    \/ \E r \in active : DynRespond(r)
    \/ \E r \in active : Retire(r)

Spec == Init /\ [][Next]_vars

SpecConc == InitConc /\ [][Next]_vars

(***************************************************************************)
(* The parsing functions applied to bounded arguments                       *)
(***************************************************************************)
MaxTimeLen == 8
TimeAlphabet == {"1", ":", "a"}
TimeStrings == UNION {[1..n -> TimeAlphabet] : n \in 0..MaxTimeLen}
TimeArgs == {Absent, None, Num(930), TimeHM, TimeHMS, TimeShort}
            \cup {Str(s) : s \in TimeStrings}

\* the country arguments: every string of up to MaxCountryLen characters of
\* the alphabet, names of the tables, names of no table, and values that are
\* no string
MaxCountryLen == 2
CountryAlphabet == {"G", "B", "g", "1"}
CountryArgs ==
    {Absent, None, Num(44)}
    \cup {Str(s) : s \in UNION {[1..n -> CountryAlphabet] : n \in 0..MaxCountryLen}}
    \cup {Str(e[1]) : e \in {c \in country_mapping :
                                c[2] \in {<<"U", "S">>, <<"G", "B">>, <<"D", "E">>, <<"P", "L">>}}}
    \cup {Str(<<"N", "a", "r", "n", "i", "a">>), Str(<<"g", "e", "r", "m", "a", "n", "y">>),
          Str(<<"U", "K">>), Str(<<"f", "r">>)}
CountryFns == {"map_country_to_code", "nation", "dyn_nation", "dyn_synastry_nation"}

\* the markup texts: every sequence of up to MaxMarkupLen of the pieces a
\* sanitizer looks at
MaxMarkupLen == 4
SanitizerFns == {"_optimize_for_discord", "aggressive_house_removal",
                 "remove_house_elements_from_svg"}
MarkupPieces(fn) ==
    CASE fn = "_optimize_for_discord" -> {"svg", "xmlns", "viewBox", "size", "glyph"}
      [] fn = "aggressive_house_removal" ->
             {"nl", "thin_line", "text_open", "num", "text_close", "glyph"}
      [] OTHER -> {"nl", "thin_line", "text_open", "num", "text_close", "house_path"}
MarkupTexts(fn) == UNION {[1..n -> MarkupPieces(fn)] : n \in 0..MaxMarkupLen}

\* the artifact texts of a request with is_transit
TransitArtifacts ==
    UNION {[1..n -> {"nl", "thin_line", "text_open", "num", "house_path"}] :
              n \in 0..MaxMarkupLen}

\* the error messages: every length up to MaxMsgLen, of the character "e",
\* with one "!" at any place or none
MaxMsgLen == 52
Messages ==
    {[i \in 1..n |-> IF i = k THEN "!" ELSE "e"] : n \in 0..MaxMsgLen, k \in 0..MaxMsgLen}
FallbackFns == {"main", "_generate_error_svg"}

\* the calls the functions are applied in: a function, its argument, and no
\* result yet
FnCalls ==
    {[fn |-> f, arg |-> a, res |-> NoonTime, done |-> FALSE] :
        f \in {"parse_time", "synastry_time"}, a \in TimeArgs}
    \cup {[fn |-> f, arg |-> a, res |-> NoonTime, done |-> FALSE] :
            f \in CountryFns, a \in CountryArgs}
    \cup UNION {{[fn |-> f, arg |-> Str(s), res |-> NoonTime, done |-> FALSE] :
                    s \in MarkupTexts(f)} : f \in SanitizerFns}
    \cup {[fn |-> f, arg |-> Str(s), res |-> NoonTime, done |-> FALSE] :
            f \in FallbackFns, s \in Messages}
    \cup {[fn |-> "transit_post_processing", arg |-> Str(s), res |-> NoonTime,
            done |-> FALSE] : s \in TransitArtifacts}

InitFn ==
    /\ active = {1}
    /\ started = 0
    /\ chart_class = [p \in Processes |-> OriginalClass]
    /\ dirs = {TmpDir}
    /\ files = {}
    /\ clock = 0
    /\ req = [s \in Slots |-> IdleReq]
    /\ fn_call \in FnCalls

\* parse_birth_data's birth time, for a record whose birth_date is valid
ApplyParseTime ==
    /\ fn_call.fn = "parse_time" /\ ~fn_call.done
    /\ fn_call' = [fn_call EXCEPT !.res = ParseTime(fn_call.arg), !.done = TRUE]
    /\ UNCHANGED <<active, started, chart_class, dirs, files, clock, req>>

\* _create_astrological_subject_from_chart_data's birth time
ApplySynastryTime ==
    /\ fn_call.fn = "synastry_time" /\ ~fn_call.done
    /\ fn_call' = [fn_call EXCEPT
                     !.res = DynSynastryTime([birth_time |-> fn_call.arg]),
                     !.done = TRUE]
    /\ UNCHANGED <<active, started, chart_class, dirs, files, clock, req>>

\* a country resolved: by map_country_to_code itself, as parse_birth_data
\* resolves birth_country, and as the two subject builders of the dynamic
\* generator do
ApplyCountry ==
    /\ fn_call.fn \in CountryFns /\ ~fn_call.done
    /\ fn_call' = [fn_call EXCEPT
                     !.res = CASE fn_call.fn = "map_country_to_code" ->
                                      map_country_to_code(Get(fn_call.arg, None))
                               [] fn_call.fn = "nation" -> ParseNation(fn_call.arg)
                               [] fn_call.fn = "dyn_nation" -> DynNation(fn_call.arg)
                               [] OTHER -> DynSynastryNation(fn_call.arg),
                     !.done = TRUE]
    /\ UNCHANGED <<active, started, chart_class, dirs, files, clock, req>>

\* the sanitizer named fn applied to a markup text
Sanitize(fn, svg_content) ==
    CASE fn = "_optimize_for_discord" -> _optimize_for_discord(svg_content)
      [] fn = "aggressive_house_removal" -> aggressive_house_removal(svg_content)
      [] OTHER -> remove_house_elements_from_svg(svg_content)

\* a sanitizer applied to an artifact text
ApplySanitizer ==
    /\ fn_call.fn \in SanitizerFns /\ ~fn_call.done
    /\ fn_call' = [fn_call EXCEPT
                     !.res = [exc |-> NoExc, text |-> Sanitize(fn_call.fn, fn_call.arg.s)],
                     !.done = TRUE]
    /\ UNCHANGED <<active, started, chart_class, dirs, files, clock, req>>

\* a fallback diagram formatted for an error message: by main of the chart
\* generator, and by _generate_error_svg
ApplyFallback ==
    /\ fn_call.fn \in FallbackFns /\ ~fn_call.done
    /\ fn_call' = [fn_call EXCEPT
                     !.res = Placeholder(fn_call.arg.s, fn_call.fn = "_generate_error_svg"),
                     !.done = TRUE]
    /\ UNCHANGED <<active, started, chart_class, dirs, files, clock, req>>

\* the artifact of a request with is_transit between its reading and the
\* return of generate_chart
ApplyTransitPostProcessing ==
    /\ fn_call.fn = "transit_post_processing" /\ ~fn_call.done
    /\ fn_call' = [fn_call EXCEPT
                     !.res = [exc |-> NoExc, text |-> TransitPostProcessing(fn_call.arg.s)],
                     !.done = TRUE]
    /\ UNCHANGED <<active, started, chart_class, dirs, files, clock, req>>

NextFn ==
    \/ ApplyParseTime
    \/ ApplySynastryTime
    \/ ApplyCountry
    \/ ApplySanitizer
    \/ ApplyFallback
    \/ ApplyTransitPostProcessing

SpecFn == InitFn /\ [][NextFn]_vars

(***************************************************************************)
(* Observations the properties are stated with                              *)
(***************************************************************************)
\* the chart mode a request was rendered in, read off the chart object that
\* generate_chart built: the drawer class, the mode label and the subjects
ChartModeOf(chart) ==
    CASE chart.label = "Transit" -> "TransitOverlay"
      [] chart.label = "Synastry" /\ chart.class = "KerykeionChartSVG" -> "Synastry"
      [] chart.label = "Synastry" -> "NoHousesSynastry"
      [] chart.class = "NoHousesChartSVG" -> "PureTransit"
      [] OTHER -> "Natal"

ChartRequest(r) == req[r].entry \in {"http", "main"}
Finished(r) == req[r].pc = "done"
InScope(r) == req[r].pc \in {"chart", "render", "collect", "finish", "exit"}

(***************************************************************************)
(* C1                                                                       *)
(***************************************************************************)
\* the mode the precedence of the design gives a request
SelectedMode(input) ==
    IF input.synastry_data.present
    THEN (IF is_transit_chart(input.synastry_data) THEN "TransitOverlay" ELSE "Synastry")
    ELSE IF input.is_transit THEN "PureTransit"
    ELSE "Natal"

\* C1: every chart generate_chart builds is of the mode the precedence gives:
\* a second payload with a transit prefix is a TransitOverlay, a second
\* payload without it a plain Synastry whether or not is_transit is set,
\* is_transit alone a PureTransit, anything else a Natal chart.
C1_ModePrecedence ==
    \A r \in active :
        ChartRequest(r) /\ req[r].chart_svg.class /= "none"
        => ChartModeOf(req[r].chart_svg) = SelectedMode(req[r].input)

(***************************************************************************)
(* C2                                                                       *)
(***************************************************************************)
\* C2: whatever stage fails, the caller of either entry point receives a
\* diagram: the rendering or the placeholder, and of the error text no more
\* than the placeholder's 50 characters.
C2_AlwaysADiagram ==
    \A r \in active :
        ChartRequest(r) /\ Finished(r)
        => /\ req[r].response.kind \in {"rendering", "placeholder"}
           /\ req[r].response.error_chars <= MsgLimit

(***************************************************************************)
(* C3                                                                       *)
(***************************************************************************)
\* C3: between requests the service's KerykeionChartSVG has its original
\* house/cusp/division methods.
C3_ClassRestoredBetweenRequests ==
    (\A r \in active : req[r].pc \in {"idle", "done"})
    => chart_class[ServiceProcess] = OriginalClass

(***************************************************************************)
(* C4                                                                       *)
(***************************************************************************)
\* C4: the scoped output location of a request exists only while the request
\* is inside the scope: once the request has left it, by return or by any
\* exception, the directory and its files are gone, and no directory other
\* than /tmp exists that no request in its scope owns.
C4_TempDirRemoved ==
    /\ \A r \in active :
          ChartRequest(r) /\ req[r].temp_dir /= 0 - 1 /\ ~InScope(r)
          => req[r].temp_dir \notin dirs /\ FilesIn(req[r].temp_dir) = {}
    /\ \A d \in dirs \ {TmpDir} :
          \E r \in active : InScope(r) /\ req[r].temp_dir = d

\* a request whose renderer wrote an empty artifact has raised inside the
\* scope, and its directory is gone
C4_Witness ==
    \E r \in active :
        /\ ChartRequest(r) /\ Finished(r)
        /\ req[r].stage = "empty_artifact"
        /\ req[r].temp_dir /= 0 - 1 /\ req[r].temp_dir \notin dirs

(***************************************************************************)
(* C5                                                                       *)
(***************************************************************************)
\* C5: a request locates, reads and removes only an artifact its own
\* renderer call wrote.
C5_OwnArtifactOnly ==
    \A r \in active :
        /\ req[r].svg_file /= NoFile => req[r].svg_file.by = req[r].id
        /\ req[r].svg_content.kind /= "none" => req[r].svg_content.by = req[r].id

(***************************************************************************)
(* C6                                                                       *)
(***************************************************************************)
PureTransitRequest(r) ==
    ChartRequest(r) /\ req[r].input.is_transit /\ ~req[r].input.synastry_data.present

C7_PureTransitIgnoresTimeAndPlace ==
    \A r \in active :
        PureTransitRequest(r) /\ req[r].input.chart_data.present
        /\ ParseDate(req[r].input.chart_data.birth_date).exc = NoExc
        => /\ req[r].stage \notin {"birth_time", "coordinates"}
           /\ req[r].first_subject.class = "none"
           /\ req[r].call.made
              => /\ req[r].call.first.hour = 12 /\ req[r].call.first.minute = 0
                 /\ req[r].call.first.lat = 515 /\ req[r].call.first.lng = 0
                 /\ req[r].call.first.tz_str = "UTC"

(***************************************************************************)
(* C8                                                                       *)
(***************************************************************************)
\* C8: at the rendering call of a TransitOverlay request the transit-side
\* subject has empty house and cusp lists and the natal-side subject has
\* its house data.
C8_OverlayTransitSideCleared ==
    \A r \in active :
        ChartRequest(r) /\ req[r].call.made /\ req[r].call.label = "Transit"
        => /\ req[r].call.second.houses_list = <<>>
           /\ req[r].call.second.cusps = <<>>
           /\ req[r].call.first.houses_list /= <<>>

(***************************************************************************)
(* C9                                                                       *)
(***************************************************************************)
\* the record the request's subject is built from
RecordOf(r) ==
    IF req[r].entry = "dynamic"
    THEN _extract_chart_data(req[r].input,
                             IF req[r].input.source_type = "absent" THEN "chart"
                             ELSE req[r].input.source_type)
    ELSE req[r].input.chart_data

\* the date is absent, no string, or parses neither as a date nor as a timestamp
MalformedDate(v) ==
    \/ ~IsStr(GetNone(v))
    \/ /\ ~Strptime(v.s).ok
       /\ ~FromIsoFormat(ReplaceZ(v.s)).ok

\* C9: a request whose record has a malformed or absent birth_date has no
\* subject constructed and no renderer call made, and its caller receives an
\* error response, never a rendering.
C9_MalformedDateIsAnError ==
    \A r \in active :
        req[r].entry /= "none" /\ req[r].input.body = "object"
        /\ RecordOf(r).present /\ MalformedDate(RecordOf(r).birth_date)
        => /\ req[r].first_subject.class = "none"
           /\ ~req[r].call.made
           /\ Finished(r) => req[r].response.kind /= "rendering"

(***************************************************************************)
(* C10                                                                      *)
(***************************************************************************)
\* digits, a colon, digits (and for eight characters a colon and digits more)
WellFormedTime(v) ==
    /\ IsStr(v) /\ Len(v.s) \in {5, 8}
    /\ LET p == Split(v.s, ":")
       IN  /\ Len(p) = (IF Len(v.s) = 5 THEN 2 ELSE 3)
           /\ \A i \in 1..Len(p) : AllDigits(p[i])

\* C10: parsing a birth time never fails; it yields the parsed pair for a
\* well-formed time and (12, 0) for an absent, non-string or malformed one.
C10_TimeNeverFails ==
    fn_call.done /\ fn_call.fn \in {"parse_time", "synastry_time"}
    => /\ fn_call.res.exc = NoExc
       /\ ~WellFormedTime(fn_call.arg)
          => fn_call.res.hour = 12 /\ fn_call.res.minute = 0

(***************************************************************************)
(* C11                                                                      *)
(***************************************************************************)
UpperLetters ==
    {"A", "B", "C", "D", "E", "F", "G", "H", "I", "J", "K", "L", "M",
     "N", "O", "P", "Q", "R", "S", "T", "U", "V", "W", "X", "Y", "Z"}

\* C11: for every country that is absent, null or a string, the nation
\* parse_birth_data puts into the record is two uppercase letters.
C11_NationTwoUppercase ==
    fn_call.done /\ fn_call.fn = "nation" /\ fn_call.arg.t \in {"absent", "none", "str"}
    => /\ fn_call.res.exc = NoExc
       /\ Len(fn_call.res.code) = 2
       /\ \A i \in 1..Len(fn_call.res.code) : fn_call.res.code[i] \in UpperLetters

(***************************************************************************)
(* C12                                                                      *)
(***************************************************************************)
\* C12: in every path that resolves a country, a string of one or two
\* characters is passed through unchanged, and an empty or absent country
\* gives the one code the resolver gives for the empty string.
C12_ShortUnchangedOneFallback ==
    fn_call.done /\ fn_call.fn \in CountryFns
    => /\ IsStr(fn_call.arg) /\ Len(fn_call.arg.s) \in {1, 2}
          => fn_call.res.exc = NoExc /\ fn_call.res.code = fn_call.arg.s
       /\ fn_call.arg \in {Absent, Str(<<>>)}
          => /\ fn_call.res.exc = NoExc
             /\ fn_call.res.code = map_country_to_code(Str(<<>>)).code

(***************************************************************************)
(* C13                                                                      *)
(***************************************************************************)
\* both coordinates are given and one of them is no number
MalformedCoordinates(rec) ==
    /\ rec.present
    /\ Truthy(rec.birth_latitude) /\ Truthy(rec.birth_longitude)
    /\ ~PyFloat(rec.birth_latitude).ok \/ ~PyFloat(rec.birth_longitude).ok

\* the coordinates are given, are numbers and are not zero
UsableCoordinates(rec) ==
    /\ PyFloat(rec.birth_latitude).ok /\ PyFloat(rec.birth_longitude).ok
    /\ PyFloat(rec.birth_latitude).v /= 0 /\ PyFloat(rec.birth_longitude).v /= 0

\* C13: no request fails on its coordinates; a record with malformed
\* coordinates gets its subject through city and country, and a subject is
\* built with explicit coordinates only from coordinates that are present,
\* well formed and not zero.
C13_MalformedCoordinatesFallThrough ==
    \A r \in active :
        ChartRequest(r)
        => /\ req[r].stage \notin {"coordinates", "second_coordinates"}
           /\ MalformedCoordinates(req[r].input.chart_data) /\ req[r].pc = "tempdir"
              => req[r].first_subject.located = "city"
           /\ req[r].first_subject.located = "coords"
              => UsableCoordinates(req[r].input.chart_data)
           /\ req[r].second_subject.located = "coords"
              => UsableCoordinates(req[r].input.synastry_data)

(***************************************************************************)
(* C14                                                                      *)
(***************************************************************************)
\* C14: no request fails on its preferences; every subject constructed has
\* Chiron disabled and the Lahiri sidereal mode exactly when the zodiac
\* preference is lahiri-vedic, the first subject has the house system of the
\* preference or Placidus, and the points rendered are the classical ones
\* exactly when the rulership preference is traditional.
C14_PreferencesDefaulted ==
    \A r \in active :
        ChartRequest(r)
        => LET pf == req[r].input.user_preferences
               lahiri == pf.zodiac = "lahiri-vedic"
               built == {s \in {req[r].first_subject, req[r].second_subject,
                                req[r].transit_subject} : s.class /= "none"}
           IN  /\ req[r].stage /= "preferences"
               /\ \A s \in built :
                     /\ s.disable_chiron
                     /\ s.sidereal_mode = (IF lahiri THEN "LAHIRI" ELSE "")
                     /\ s.zodiac_type = (IF lahiri THEN "Sidereal" ELSE "Tropic")
               /\ req[r].first_subject.class /= "none"
                  => req[r].first_subject.houses_system_identifier
                       = (CASE pf.houseSystem = "whole-sign" -> "W"
                            [] pf.houseSystem = "campanus" -> "C"
                            [] OTHER -> "P")
               /\ req[r].call.made
                  => SubSeq(req[r].call.active_points, 1, 7) = ClassicalPlanets
                     /\ (pf.rulership = "traditional"
                           <=> \A i \in 1..Len(req[r].call.active_points) :
                                   req[r].call.active_points[i]
                                     \notin {"Uranus", "Neptune", "Pluto", "Mean_Node"})

(***************************************************************************)
(* C15                                                                      *)
(***************************************************************************)
\* C15: the points handed to the renderer are the classical bodies for the
\* traditional rulership and the modern ones otherwise, followed by the two
\* angles exactly when the request's mode is Natal or Synastry.
C15_ActivePointsByMode ==
    \A r \in active :
        ChartRequest(r) /\ req[r].call.made
        => req[r].call.active_points
             = (IF req[r].input.user_preferences.rulership = "traditional"
                THEN ClassicalPlanets ELSE ModernPlanets)
               \o (IF SelectedMode(req[r].input) \in {"Natal", "Synastry"}
                   THEN Angles ELSE <<>>)

(***************************************************************************)
(* C16                                                                      *)
(***************************************************************************)
\* the request failed in the rendering: the renderer raised, or left no
\* artifact or an empty one
RenderFailure(r) == req[r].stage \in {"renderer", "no_artifact", "empty_artifact"}

\* C16: the artifact a request has read is the most recently created one of
\* the artifacts in its output location at that moment; a request whose
\* location held no artifact has a render failure and no markup; and the
\* caller of a request with a render failure receives the placeholder.
C16_NewestArtifactOrFailure ==
    \A r \in active :
        req[r].entry /= "none"
        => /\ req[r].pc = "finish"
              => /\ FilesIn(req[r].temp_dir) /= {}
                 /\ req[r].svg_content.by = Newest(FilesIn(req[r].temp_dir)).by
           /\ req[r].pc = "read"
              => req[r].svg_file = Newest(FilesIn(TmpDir))
           /\ RenderFailure(r)
              => /\ req[r].svg_content.kind = "none"
                 /\ Finished(r) => req[r].response.kind = "placeholder"

(***************************************************************************)
(* C17                                                                      *)
(***************************************************************************)
\* C17: a sanitizer applied to its own output returns that output, and an
\* output has no more than one namespace declaration and one viewBox unless
\* the artifact had more.
C17_SanitizerIdempotent ==
    fn_call.done /\ fn_call.fn \in SanitizerFns
    => /\ Sanitize(fn_call.fn, fn_call.res.text) = fn_call.res.text
       /\ \A piece \in {"xmlns", "viewBox"} :
             LET Is(x) == x = piece
             IN  \/ Len(SelectSeq(fn_call.res.text, Is)) <= 1
                 \/ Len(SelectSeq(fn_call.res.text, Is)) = Len(SelectSeq(fn_call.arg.s, Is))

(***************************************************************************)
(* C19                                                                      *)
(***************************************************************************)
\* C19: for every message both fallback generators return, without failing,
\* the 400x400 diagram with one circle and two lines of text, the second
\* line being the first 50 characters of the message.
C19_FallbackFixedAndTruncated ==
    fn_call.done /\ fn_call.fn \in FallbackFns
    => LET msg == fn_call.arg.s
           shown == fn_call.res.texts[2]
       IN  /\ fn_call.res.exc = NoExc
           /\ fn_call.res.width = 400 /\ fn_call.res.height = 400
           /\ fn_call.res.circles = 1
           /\ Len(fn_call.res.texts) = 2
           /\ fn_call.res.texts[1] = "Chart Generation Error"
           /\ Len(shown) = (IF Len(msg) < 50 THEN Len(msg) ELSE 50)
           /\ \A i \in 1..Len(shown) : shown[i] = msg[i]

\* a message of more than 50 characters, marked at its 51st, has been
\* formatted by main's fallback
C19_Witness ==
    /\ fn_call.done /\ fn_call.fn = "main"
    /\ Len(fn_call.arg.s) > 50 /\ fn_call.arg.s[51] = "!"
    /\ Len(fn_call.res.texts[2]) = 50


(***************************************************************************)
(* C18                                                                      *)
(***************************************************************************)
\* C18: the markup generate_chart returns has passed through the house
\* removal exactly when the request's mode is PureTransit or TransitOverlay:
\* a TransitOverlay is filtered with or without the is_transit flag, a Natal
\* or Synastry chart never.
C18_HouseRemovalByMode ==
    \A r \in active :
        ChartRequest(r) /\ req[r].pc \in {"exit", "respond", "done"}
                        /\ req[r].svg_content.kind /= "none"
        => (req[r].svg_content.filtered
            <=> SelectedMode(req[r].input) \in {"PureTransit", "TransitOverlay"})


(***************************************************************************)
(* C20                                                                      *)
(***************************************************************************)
\* a post-processing step of the request failed: the house removal of
\* generate_chart or the namespace and viewBox fix-up of the dynamic generator
SanitizationFailed(r) == req[r].stage \in {"house_removal", "optimize"}

\* C20: a request whose post-processing step failed still ends with the real
\* rendering, carrying the artifact as it was read, unsanitized; its caller
\* receives neither the placeholder nor an error.
C20_SanitizationFailureKeepsArtifact ==
    \A r \in active :
        SanitizationFailed(r) /\ Finished(r)
        => /\ req[r].response.kind = "rendering"
           /\ req[r].response.content.by = req[r].svg_content.by
           /\ ~req[r].response.content.filtered


(***************************************************************************)
(* C21                                                                      *)
(***************************************************************************)
\* a request of the dynamic generator whose input was read and extracted
Extracted(r) ==
    req[r].entry = "dynamic" /\ req[r].input.body = "object" /\ req[r].pc /= "entry"

\* C21: a request without source_type is extracted as the generic path
\* extracts it, the chart_data sub-object as it is, and for every source type
\* the extracted record has a name: a missing one is replaced by a default.
C21_GenericDefaultNamedRecord ==
    \A r \in active :
        Extracted(r)
        => LET chart_data == _extract_chart_data(req[r].input, SourceTypeOf(req[r].input))
           IN  /\ req[r].input.source_type = "absent"
                  => chart_data = _extract_chart_data(req[r].input, "generic")
               /\ chart_data.present => chart_data.name.t = "str"


(***************************************************************************)
(* C22                                                                      *)
(***************************************************************************)
\* C22: what a finished request of main has written to standard output is
\* one SVG document and nothing else: the rendering or the fallback diagram.
C22_OnlyMarkupOnStdout ==
    \A r \in active :
        req[r].entry = "main" /\ Finished(r)
        => req[r].stdout \in {<<"svg">>, <<"placeholder">>}


(***************************************************************************)
(* C23                                                                      *)
(***************************************************************************)
\* generate_chart has returned the markup of the request
Returned(r) ==
    /\ ChartRequest(r) /\ req[r].pc \in {"exit", "respond", "done"}
    /\ req[r].exc = NoExc /\ req[r].call.made /\ req[r].svg_content.kind /= "none"

\* how each stage treated the request: as transit-bearing or not
ConstructorCleared(r) == req[r].call.first.houses_list = <<>>
PointsWithoutAngles(r) ==
    \A i \in 1..Len(req[r].call.active_points) :
        req[r].call.active_points[i] \notin {Angles[1], Angles[2]}
RendererTransit(r) == ChartModeOf(req[r].call) \in {"TransitOverlay", "PureTransit"}
SanitizerFiltered(r) == req[r].svg_content.filtered

\* C23: within one request the four stages agree: the house clearing of the
\* constructor, the active points, the renderer's mode and the house removal
\* of the sanitizer all treat it as transit-bearing, or none does.
C23_StagesAgreeOnMode ==
    \A r \in active :
        Returned(r)
        => /\ ConstructorCleared(r) <=> RendererTransit(r)
           /\ PointsWithoutAngles(r) <=> RendererTransit(r)
           /\ SanitizerFiltered(r) <=> RendererTransit(r)


(***************************************************************************)
(* C24                                                                      *)
(***************************************************************************)
\* C24: the markup returned for a request with is_transit is the artifact
\* passed through remove_house_elements_from_svg first and through
\* aggressive_house_removal second.
C24_StructuralThenHeuristic ==
    fn_call.fn = "transit_post_processing" /\ fn_call.done
    => fn_call.res.text
         = Strip(aggressive_house_removal(remove_house_elements_from_svg(fn_call.arg.s)))


(***************************************************************************)
(* C25                                                                      *)
(***************************************************************************)
\* the line holds a text element whose whole content is a house number
HouseNumberText(line) ==
    \E i \in 1..Len(line) : \E n \in {1, 2} :
        /\ line[i] = "text_open"
        /\ Run(line, i + 1, "num") = n
        /\ i + n + 1 <= Len(line) /\ line[i + n + 1] = "text_close"

\* C25: aggressive_house_removal drops the lines that hold a thin or gray
\* line-drawing element or a text element whose whole content is a house
\* number, and keeps every other line as it is and in its order.
C25_HeuristicDropsExactly ==
    fn_call.fn = "aggressive_house_removal" /\ fn_call.done
    => LET Kept(line) == ~(Has(line, "thin_line") \/ HouseNumberText(line))
       IN  fn_call.res.text = Join(SelectSeq(Split(fn_call.arg.s, "nl"), Kept))


(***************************************************************************)
(* C26                                                                      *)
(***************************************************************************)
\* request r of the service has called the renderer while another request of
\* the service, one with is_transit, is in flight in the same process
RenderedBesideTransit(r) ==
    /\ req[r].entry = "http" /\ req[r].call.made
    /\ \E o \in active \ {r} :
          /\ req[o].entry = "http" /\ req[o].input.is_transit
          /\ req[o].pc \notin {"idle", "entry", "done"}

\* C26: beside a transit request in flight in the same process, a request
\* without is_transit is rendered by the original methods of the class, and
\* a request with is_transit by the replaced ones.
C26_PatchConfinedToItsRequest ==
    \A r \in active :
        RenderedBesideTransit(r)
        => req[r].call.methods
             = (IF req[r].input.is_transit THEN NoopClass ELSE OriginalClass)

====
